---- MODULE Spec2Model ----
(***************************************************************************)
(* DevDrop: the environment registry (pkg/config) and the command handlers *)
(* (cmd) that load it, call the container engine and save it.              *)
(*                                                                         *)
(* The persisted registry is the YAML file ~/.devdrop/config.yaml.  Every  *)
(* command is one process invocation: it loads the file, works on an       *)
(* in-memory Config and saves it.  The invocations share the file and      *)
(* nothing else, and nothing keeps one from running while others do.  An   *)
(* invocation takes one step for its load of the file and one for each     *)
(* save it makes (login and init make two, run, commit, pull and switch    *)
(* one); what it does in between, at its prompts, in its session or with   *)
(* the engine, belongs to the step of the save that follows.  Any number   *)
(* of other invocations take steps of theirs between two steps of one: an  *)
(* invocation then saves the Config it loaded earlier over the file as     *)
(* the others left it.  Each handler is an operator over the process it    *)
(* runs in and the Config it loaded.  Under SpecApi and SpecFile the       *)
(* package is called directly, one call a step.                            *)
(*                                                                         *)
(* Outcomes of the container engine, of the terminal prompts, of the file  *)
(* system and of the file write are inputs of the action, drawn with \E.   *)
(*                                                                         *)
(* Strings are TLA+ strings; time.Time is a natural number, 0 being the    *)
(* zero time.Time.                                                         *)
(***************************************************************************)
EXTENDS Integers, Sequences, FiniteSets, TLC

VARIABLES
    configFile,   \* <<>> when config.yaml is absent, else <<c>>: the Config c the
                  \* file decodes to, Unparseable when it does not decode or,
                  \* under SpecFile, its YAML document
    now,          \* the latest reading of the wall clock (time.Now)
    last,         \* the invocation that has just saved or returned: operation,
                  \* arguments, engine calls, result, the Config it loaded and the
                  \* file it found; NoInvocation once the step has been looked at
    running       \* per process, where its invocation is: not started, between
                  \* its load and a save with the Config it holds, or exited

vars == <<configFile, now, last, running>>

----------------------------------------------------------------------------
(* Bounds of the model *)

\* the number of invocations of a history; any of them may run at the same
\* time
MaxInvocations == 3

----------------------------------------------------------------------------
(* Program constants *)

defaultBaseImage == "ubuntu:24.04"

DevDropPrefix == "devdrop-"

ContainerIdDisplayLen == 12

starterImages ==
    [k \in {"ubuntu", "go", "node", "python"} |->
        CASE k = "ubuntu" -> "ubuntu:24.04"
          [] k = "go"     -> "golang:latest"
          [] k = "node"   -> "node:latest"
          [] k = "python" -> "python:latest"]

StarterOptions == <<"ubuntu", "go", "node", "python", "custom">>

----------------------------------------------------------------------------
(* strings package *)

HasPrefix(s, prefix) ==
    /\ Len(s) >= Len(prefix)
    /\ SubSeq(s, 1, Len(prefix)) = prefix

HasSuffix(s, suffix) ==
    /\ Len(s) >= Len(suffix)
    /\ SubSeq(s, Len(s) - Len(suffix) + 1, Len(s)) = suffix

TrimSuffix(s, suffix) ==
    IF HasSuffix(s, suffix) THEN SubSeq(s, 1, Len(s) - Len(suffix)) ELSE s

\* index (1-based) of the last occurrence of the one-character string ch, 0 if none
RECURSIVE LastIndexFrom(_, _, _)
LastIndexFrom(s, ch, i) ==
    IF i = 0 THEN 0
    ELSE IF SubSeq(s, i, i) = ch THEN i
    ELSE LastIndexFrom(s, ch, i - 1)

\* index (1-based) of the first occurrence of the one-character string ch, 0 if none
RECURSIVE FirstIndexFrom(_, _, _)
FirstIndexFrom(s, ch, i) ==
    IF i > Len(s) THEN 0
    ELSE IF SubSeq(s, i, i) = ch THEN i
    ELSE FirstIndexFrom(s, ch, i + 1)

\* parts[len(parts)-1] of strings.Split(s, sep), sep one character
LastPart(s, sep) ==
    LET i == LastIndexFrom(s, sep, Len(s))
    IN  SubSeq(s, i + 1, Len(s))

\* strings.Split(s, sep)[0], sep one character
FirstPart(s, sep) ==
    LET i == FirstIndexFrom(s, sep, 1)
    IN  IF i = 0 THEN s ELSE SubSeq(s, 1, i - 1)

----------------------------------------------------------------------------
(* pkg/config: Config and Environment *)

ZeroTime == 0

ZeroEnvironment ==
    [image |-> "", base_image |-> "", created |-> ZeroTime,
     last_updated |-> ZeroTime, description |-> "", last_container |-> ""]

EmptyEnvironments == [k \in {} |-> ZeroEnvironment]

\* the Config of Load for an absent file
DefaultConfig ==
    [username |-> "", base_image |-> defaultBaseImage, last_container |-> "",
     auth_token |-> "", current_environment |-> "",
     environments |-> EmptyEnvironments]

\* the Config of Load for an empty file: the zero Config with the map made
NoConfig == [DefaultConfig EXCEPT !.base_image = ""]

\* the content of a file whose bytes yaml.Unmarshal rejects
Unparseable == [unparseable |-> TRUE]

\* what the file system answers to an invocation: its calls succeed, the
\* home directory cannot be found (os.UserHomeDir), or config.yaml cannot be
\* examined or read (os.Stat with an error other than not-exist, os.ReadFile)
FileSystems == {"ok", "no home directory", "unreadable"}

\* Load: config is <<>> for the nil pointer and <<c>> for a pointer to c
Load(f, fs) ==
    IF fs = "no home directory"
    THEN [err |-> "failed to get home directory", config |-> <<>>]
    ELSE IF f = <<>> /\ fs = "ok"
    THEN [err |-> "", config |-> <<DefaultConfig>>]
    ELSE IF fs = "unreadable"
    THEN [err |-> "failed to read config file", config |-> <<>>]
    ELSE IF f[1] = Unparseable
    THEN [err |-> "failed to parse config file", config |-> <<>>]
    ELSE [err |-> "", config |-> <<f[1]>>]

\* what Save writes for the in-memory Config c
Saved(c) == <<c>>

\* the registry the file holds: what a command loads when the file system
\* answers, the zero Config when the file does not parse
Persisted(f) ==
    LET r == Load(f, "ok")
    IN  IF r.err = "" THEN r.config[1] ELSE NoConfig

\* a map holding k alone
MapSet_Only(m, k, v) == [x \in {k} |-> v]

\* m[k] = v of a Go map
MapSet(m, k, v) == [x \in (DOMAIN m) \cup {k} |-> IF x = k THEN v ELSE m[x]]

HasEnvironments(c) == Cardinality(DOMAIN c.environments) > 0

\* EnsureDevDropPrefix without the default name for an empty input
EnsureDevDropPrefix_NoDefault(envName) ==
    IF ~HasPrefix(envName, DevDropPrefix) THEN DevDropPrefix \o envName
    ELSE envName

EnsureDevDropPrefix(envName) ==
    IF envName = "" THEN "devdrop-default"
    ELSE IF ~HasPrefix(envName, DevDropPrefix) THEN DevDropPrefix \o envName
    ELSE envName

\* the in-memory effect of the setters; each is followed by Save in the code
SetUsername(c, username) == [c EXCEPT !.username = username]

\* SetAuthToken saving the Config as it was loaded
SetAuthToken_Unset(c, authToken) == c

SetAuthToken(c, authToken) == [c EXCEPT !.auth_token = authToken]

SetLastContainer(c, containerID) == [c EXCEPT !.last_container = containerID]

\* AddEnvironment on a Config that carries the environments only
AddEnvironment_FreshConfig(c, name, env) ==
    [DefaultConfig EXCEPT !.environments = MapSet(c.environments, name, env)]

AddEnvironment(c, name, env) ==
    [c EXCEPT !.environments = MapSet(@, name, env)]

\* SetEnvironmentContainer starting from an empty Environment even when the
\* record exists
SetEnvironmentContainer_FreshRecord(c, envName, containerID, t) ==
    LET name == EnsureDevDropPrefix(envName)
        env2 == [ZeroEnvironment EXCEPT !.last_container = containerID,
                                        !.last_updated = t]
    IN  [c EXCEPT !.environments = MapSet(@, name, env2)]

SetEnvironmentContainer(c, envName, containerID, t) ==
    LET name == EnsureDevDropPrefix(envName)
        env  == IF name \in DOMAIN c.environments
                THEN c.environments[name] ELSE ZeroEnvironment
        env2 == [env EXCEPT !.last_container = containerID, !.last_updated = t]
    IN  [c EXCEPT !.environments = MapSet(@, name, env2)]

\* GetEnvironmentImageName without the call of EnsureDevDropPrefix on line 546
GetEnvironmentImageName_NoPrefix(c, envName) ==
    IF c.username = "" THEN ""
    ELSE c.username \o "/" \o envName \o ":latest"

GetEnvironmentImageName(c, envName) ==
    IF c.username = "" THEN ""
    ELSE c.username \o "/" \o EnsureDevDropPrefix(envName) \o ":latest"

\* SetCurrentEnvironment putting the prefix before every name
SetCurrentEnvironment_AlwaysPrefix(c, envName) ==
    [c EXCEPT !.current_environment = DevDropPrefix \o envName]

SetCurrentEnvironment(c, envName) ==
    [c EXCEPT !.current_environment = EnsureDevDropPrefix(envName)]

\* time.Time.After
After(t, u) == t > u

\* the fallback loop of GetCurrentEnvironment over one iteration order of the
\* map: st = <<latestEnv, latestTime>>
RECURSIVE ScanLatest(_, _, _)
ScanLatest(c, order, st) ==
    IF order = <<>> THEN st[1]
    ELSE LET name == Head(order)
             env  == c.environments[name]
         IN  IF After(env.last_updated, st[2])
             THEN ScanLatest(c, Tail(order), <<name, env.last_updated>>)
             ELSE ScanLatest(c, Tail(order), st)

\* the orders in which a range over a Go map with key set S may visit it
Orders(S) ==
    {o \in [1..Cardinality(S) -> S] : \A i, j \in DOMAIN o : i # j => o[i] # o[j]}

\* GetCurrentEnvironment when the map is visited in the given order
GetCurrentEnvironmentIn(c, order) ==
    IF c.current_environment # "" /\ c.current_environment \in DOMAIN c.environments
    THEN c.current_environment
    ELSE ScanLatest(c, order, <<"", ZeroTime>>)

\* the values GetCurrentEnvironment may return (map iteration order is unspecified)
GetCurrentEnvironment(c) ==
    {GetCurrentEnvironmentIn(c, o) : o \in Orders(DOMAIN c.environments)}

----------------------------------------------------------------------------
(* Config.Save: yaml.Marshal and os.WriteFile *)

\* the order of the characters of the keys of the model (letters and "-";
\* yaml.v3 puts a character that is not a letter before a letter, and
\* letters in the order of their code points)
KeyAlphabet == "-ABCDEFGHIJKLMNOPQRSTUVWXYZabcdefghijklmnopqrstuvwxyz"

\* the order in which yaml.v3 writes the keys of a map
RECURSIVE KeyLess(_, _)
KeyLess(a, b) ==
    LET KeyRank(ch) == CHOOSE i \in 1..Len(KeyAlphabet) : SubSeq(KeyAlphabet, i, i) = ch
    IN  IF a = "" THEN b # ""
        ELSE IF b = "" THEN FALSE
        ELSE IF SubSeq(a, 1, 1) = SubSeq(b, 1, 1)
        THEN KeyLess(SubSeq(a, 2, Len(a)), SubSeq(b, 2, Len(b)))
        ELSE KeyRank(SubSeq(a, 1, 1)) < KeyRank(SubSeq(b, 1, 1))

RECURSIVE SortedKeys(_)
SortedKeys(S) ==
    IF S = {} THEN <<>>
    ELSE LET first == CHOOSE k \in S : \A x \in S \ {k} : KeyLess(k, x)
         IN  <<first>> \o SortedKeys(S \ {first})

\* The document of a Config is written in the order of the struct: the five
\* top-level fields, then the environments in the order of their keys, each
\* with its six fields.  os.WriteFile truncates the file when it opens it and
\* then writes; a write that fails leaves a prefix of the document.

\* the Config that the document of c decodes to when it ends after the first
\* m fields of the record of its j-th environment
FirstRecords(c, j, m) ==
    LET keys == SortedKeys(DOMAIN c.environments)
        FirstRecordFields(e) ==
            [image          |-> IF m >= 1 THEN e.image ELSE "",
             base_image     |-> IF m >= 2 THEN e.base_image ELSE "",
             created        |-> IF m >= 3 THEN e.created ELSE ZeroTime,
             last_updated   |-> IF m >= 4 THEN e.last_updated ELSE ZeroTime,
             description    |-> IF m >= 5 THEN e.description ELSE "",
             last_container |-> IF m >= 6 THEN e.last_container ELSE ""]
    IN  [c EXCEPT !.environments =
            [k \in {keys[i] : i \in 1..j} |->
                IF k = keys[j] THEN FirstRecordFields(c.environments[k])
                ELSE c.environments[k]]]

\* what a write of the document of c that failed after the file was opened
\* may leave in the file: a prefix that decodes, the whole document (the
\* close failed), or bytes that do not decode (the document ends inside a
\* key).  A document that ends inside a value decodes as one that ends after
\* a line does, with a shorter value.  Of all the places a failed write may
\* stop these are taken: before the first byte (the file is empty), and in
\* the record of the environment written first after its created line (its
\* first 3 fields are written, last_updated is not).
Torn(c) ==
    {<<NoConfig>>}
    \cup (IF DOMAIN c.environments = {} THEN {} ELSE {<<FirstRecords(c, 1, 3)>>})
    \cup {Saved(c), <<Unparseable>>}

\* a Save that keeps the environments the file holds and c does not
Save_Merged(c, f) ==
    LET onDisk == IF f = <<>> \/ f[1] = Unparseable THEN EmptyEnvironments
                  ELSE f[1].environments
    IN  {[err |-> "", write |-> "whole",
          file |-> Saved([c EXCEPT !.environments =
                            [k \in DOMAIN onDisk \cup DOMAIN c.environments |->
                                IF k \in DOMAIN c.environments THEN c.environments[k]
                                ELSE onDisk[k]]])]}

\* Save of the in-memory Config c over the file f: the outcomes.  The file is
\* written whole; or the call fails before the file is opened and the file is
\* as it was; or the write fails after the open and the file is torn.
Save(c, f) ==
    {[err |-> "", write |-> "whole", file |-> Saved(c)]}
    \cup {[err |-> e, write |-> "none", file |-> f] :
             e \in {"failed to get home directory", "failed to create config directory",
                    "failed to write config file"}}
    \cup {[err |-> "failed to write config file", write |-> "torn", file |-> g] :
             g \in Torn(c)}

\* Save as its callers see it: they wrap its error, whichever it is, in one
\* of their own
SaveResults(c, f) ==
    {[s EXCEPT !.err = IF @ = "" THEN "" ELSE "save failed"] : s \in Save(c, f)}

----------------------------------------------------------------------------
(* Inputs of the commands *)

\* the positional argument list of run, and of commit, pull and switch
RunArgs == {<<>>, <<"">>}

CmdArgs == {<<>>, <<"go">>}

\* the --name, --image and --base-image flags of init
NameFlags == {"", "devdrop-go"}

StarterFlags == {"", "go", "custom", "rust"}

CustomFlags == {"", "me/go-dev:1"}

\* what the user types at the prompts of init (after TrimSpace)
StarterChoices == {0, 2, 5}

TypedNames == {"", "go"}

\* what the user types at the prompts of login
Usernames == {"", "alice"}

Passwords == {"", "pw"}

\* identifiers the engine gives to new containers
ContainerIds == {"4f1c2a9be07d33"}

\* repository names the registry lists for the user
HubResults == {{}, {"devdrop-go", "notes"}}

\* what a read of the terminal gives: <<>> when the read fails (the input is
\* closed), <<s>> for the line s
Typed(S) == {<<>>} \cup {<<s>> : s \in S}

----------------------------------------------------------------------------
(* Error messages of the commands (the format strings, without arguments) *)

ErrLoad == "failed to load config"

ErrNotLoggedIn == "you must run 'devdrop login' first to authenticate with DockerHub"

ErrNoToken == "missing authentication token. Please run 'devdrop login' again"

ErrNoEnvironments == "no environments configured. Run 'devdrop init' to create one"

ErrNoCurrent == "no current environment set. Run 'devdrop switch' to select one"

ErrEnvNotFound == "environment not found. Run 'devdrop ls' to see available environments"

ErrNoContainer == "no container to commit for environment"

\* the command returned nil (possibly after printing a warning)
Succeeded(inv) == HasPrefix(inv.result, "ok")

----------------------------------------------------------------------------
(* The record of an invocation *)

\* the record of a step of an invocation.  result is "" for a step after
\* which the invocation goes on, "ok..." for a return of nil and the error
\* otherwise; write is what the step did to the file: "none", "whole" (its
\* save replaced the file) or "torn" (its save failed part-way); loaded is
\* the Config the invocation loaded, found the file as the step found it,
\* time the latest reading of the clock by the invocation (ZeroTime when it
\* has read none)
Invocation(op, args, calls, result, target, write, loaded, found, time) ==
    [op |-> op, args |-> args, calls |-> calls, result |-> result,
     target |-> target, write |-> write, loaded |-> loaded, found |-> found,
     time |-> time]

\* the record of a call of the engine with the image or container it is given
Call(fn, arg) == fn \o "(" \o arg \o ")"

\* the record of a call of the engine that answers yes or no
Asked(fn, arg, answer) ==
    Call(fn, arg) \o (IF answer THEN ": true" ELSE ": false")

\* the record of a call of the engine that returned an error the command
\* went on after
Refused(fn, arg) == Call(fn, arg) \o ": error"

\* the processes of a history, in the order in which they start
Processes == 1..MaxInvocations

\* the caller of a function of the package under SpecApi and SpecFile
Alone == 0

\* the process has not started
NotStarted == [phase |-> "new"]

\* the process has returned to the shell
Exited == [phase |-> "exited"]

NoneRunning == [p \in Processes |-> NotStarted]

\* no step has been taken since the last one was looked at
NoInvocation == Invocation("", <<>>, <<>>, "", "", "none", NoConfig, <<>>, ZeroTime)

\* last is the record of one step, so an invocation takes a step when the
\* record of the step before it has been put away
Prompt == last = NoInvocation

\* process p is the next one to start
Starts(p) ==
    /\ running[p] = NotStarted
    /\ \A q \in Processes : q < p => running[q] # NotStarted

\* the invocation of process p has loaded the file (phase "loaded") or has
\* made the first of its two saves (phase "saved") and is command op
At(p, op, phase) ==
    /\ running[p].phase = phase
    /\ running[p].op = op

\* the Config the invocation of p works on: the one it loaded, or for an
\* invocation that loads in this step what the file holds
Loaded(p) ==
    IF p # Alone /\ running[p].phase \in {"loaded", "saved"}
    THEN running[p].cfg
    ELSE Persisted(configFile)

\* the invocation of p returns: the file holds f, the clock was last read at
\* t (now when this step has not read it; the invocation may have read it in
\* the step of its first save)
Return(p, op, args, calls, result, target, write, f, t) ==
    /\ last' = Invocation(op, args, calls, result, target, write, Loaded(p),
                          configFile,
                          IF t > now THEN t
                          ELSE IF p # Alone /\ running[p].phase = "saved"
                          THEN running[p].time
                          ELSE ZeroTime)
    /\ configFile' = f
    /\ now' = t
    /\ running' = IF p = Alone THEN running ELSE [running EXCEPT ![p] = Exited]

\* process p starts command op: it has loaded cfg and goes on to its prompts,
\* its session or its engine work; with is what it has been given to save
\* (the credentials typed at the prompts of login)
Begin(p, op, cfg, with) ==
    /\ Starts(p)
    /\ running' = [running EXCEPT ![p] = [phase |-> "loaded", op |-> op,
                                          cfg |-> cfg, with |-> with]]
    /\ UNCHANGED <<configFile, now, last>>

\* the invocation of p has made the first of its two saves, which left f in
\* the file, and goes on to the second: mem is the Config it has in memory,
\* with what it is still to set in it
Goes(p, op, args, calls, target, f, t, mem, with) ==
    /\ last' = Invocation(op, args, calls, "", target, "whole", Loaded(p),
                          configFile, IF t > now THEN t ELSE ZeroTime)
    /\ configFile' = f
    /\ now' = t
    /\ running' = [running EXCEPT ![p] =
                      [phase |-> "saved", op |-> op, cfg |-> running[p].cfg,
                       mem |-> mem, with |-> with, calls |-> calls,
                       time |-> IF t > now THEN t ELSE ZeroTime]]

\* the command returns without having written the file or read the clock
Fail(p, op, args, calls, result, target) ==
    Return(p, op, args, calls, result, target, "none", configFile, now)

\* a reading of time.Now() by an invocation: later than every earlier reading
Readings == {now + 1}

\* a second reading of time.Now() in the same step
NextReadings(t) == t..(t + 1)

----------------------------------------------------------------------------
(* cmd: login *)

\* createAuthToken: base64 of the JSON object {password, serveraddress, username}
createAuthToken(username, password) ==
    "b64{" \o password \o "," \o "https://index.docker.io/v1/" \o "," \o username \o "}"

\* lines 209-268 of runLogin in process p: the engine is connected, the
\* credentials are read from the terminal and checked with the registry, and
\* the file is loaded on line 265
runLogin(p) ==
    LET Err(calls, result) == Fail(p, "login", <<>>, calls, result, "")
        c1 == <<"NewClient">>
        c2 == <<"NewClient", "RegistryLogin">>
    IN  \/ Err(c1, "failed to connect to Docker")
        \/ \E typedName \in Typed(Usernames) :
             IF typedName = <<>> THEN Err(c1, "failed to read username")
             ELSE IF typedName[1] = "" THEN Err(c1, "username cannot be empty")
             ELSE \E typedPassword \in Typed(Passwords) :
               IF typedPassword = <<>> THEN Err(c1, "failed to read password")
               ELSE IF typedPassword[1] = "" THEN Err(c1, "password cannot be empty")
               ELSE LET typed == <<typedName[1], typedPassword[1]>>
                    IN  \/ Fail(p, "login", typed, c2, "authentication failed", "")
                        \/ \E fs \in FileSystems :
                             LET r == Load(configFile, fs)
                             IN  IF r.err # ""
                                 THEN Fail(p, "login", typed, c2, ErrLoad, "")
                                 ELSE Begin(p, "login", r.config[1], typed)

\* lines 270-272 of runLogin: SetUsername and its save
loginSetUsername(p, cfg, typed) ==
    LET c2   == <<"NewClient", "RegistryLogin">>
        cfg1 == SetUsername(cfg, typed[1])
    IN  \E s1 \in SaveResults(cfg1, configFile) :
          IF s1.err # ""
          THEN Return(p, "login", typed, c2, "failed to save username to config", "",
                      s1.write, s1.file, now)
          ELSE Goes(p, "login", typed, c2, "", s1.file, now, cfg1, typed)

\* lines 274-281 of runLogin: SetAuthToken and its save, on the Config in
\* memory since the save of the username
loginSetAuthToken(p, cfg1, typed) ==
    LET c2        == <<"NewClient", "RegistryLogin">>
        authToken == createAuthToken(typed[1], typed[2])
        cfg2      == SetAuthToken(cfg1, authToken)
    IN  \E s2 \in SaveResults(cfg2, configFile) :
          Return(p, "login", typed, c2,
                 IF s2.err # "" THEN "failed to save auth token to config" ELSE "ok",
                 "", s2.write, s2.file, now)

BeginLogin ==
    /\ Prompt
    /\ \E p \in Processes : Starts(p) /\ runLogin(p)

MidLogin ==
    /\ Prompt
    /\ \E p \in Processes :
         /\ At(p, "login", "loaded")
         /\ loginSetUsername(p, running[p].cfg, running[p].with)

EndLogin ==
    /\ Prompt
    /\ \E p \in Processes :
         /\ At(p, "login", "saved")
         /\ loginSetAuthToken(p, running[p].mem, running[p].with)

----------------------------------------------------------------------------
(* cmd: init *)

\* promptForStarterImage: line is what the first read gives (the number typed,
\* 0 for anything that is not a number in 1..5), custom what the second read
\* gives
promptForStarterImage(line, custom) ==
    IF line = <<>>
    THEN [err |-> "failed to read starter image selection", image |-> ""]
    ELSE IF line[1] < 1 \/ line[1] > 5
    THEN [err |-> "invalid selection. Please choose 1-5", image |-> ""]
    ELSE IF StarterOptions[line[1]] = "custom"
    THEN IF custom = <<>>
         THEN [err |-> "failed to read custom image URL", image |-> ""]
         ELSE IF custom[1] = ""
         THEN [err |-> "custom image URL cannot be empty", image |-> ""]
         ELSE [err |-> "", image |-> custom[1]]
    ELSE [err |-> "", image |-> starterImages[StarterOptions[line[1]]]]

resolveBaseImage(starter, custom) ==
    IF starter = "custom"
    THEN IF custom = ""
         THEN [err |-> "--base-image is required when using --image=custom", image |-> ""]
         ELSE [err |-> "", image |-> custom]
    ELSE IF starter \in DOMAIN starterImages
    THEN [err |-> "", image |-> starterImages[starter]]
    ELSE [err |-> "unknown starter image", image |-> ""]

generateSmartDefault(baseImage) ==
    IF HasPrefix(baseImage, "ubuntu") THEN "ubuntu"
    ELSE IF HasPrefix(baseImage, "golang") THEN "go"
    ELSE IF HasPrefix(baseImage, "node") THEN "node"
    ELSE IF HasPrefix(baseImage, "python") THEN "python"
    ELSE LET lastPart  == LastPart(baseImage, "/")
             imageName == FirstPart(lastPart, ":")
         IN  TrimSuffix(TrimSuffix(imageName, "-latest"), "-dev")

\* lines 79-90 of runInit: the base image, from the flags or from the prompt
InitBaseImage(starter, custom, line, typed) ==
    IF starter = "" THEN promptForStarterImage(line, typed)
    ELSE resolveBaseImage(starter, custom)

\* runInit without the call of EnsureDevDropPrefix on line 109
InitEnvName_NoPrefix(nameFlag, typed, baseImage) ==
    LET suggestedName == generateSmartDefault(baseImage)
    IN  IF nameFlag # "" THEN nameFlag
        ELSE IF typed = "" THEN suggestedName
        ELSE typed

\* lines 93-109 of runInit: the environment name, from the flag or from the
\* prompt (typed), the suggestion standing in for an empty answer
InitEnvName(nameFlag, typed, baseImage) ==
    LET suggestedName == generateSmartDefault(baseImage)
        finalEnvName  == IF nameFlag # "" THEN nameFlag
                         ELSE IF typed = "" THEN suggestedName
                         ELSE typed
    IN  EnsureDevDropPrefix(finalEnvName)

\* the environment entry with the two readings of the clock swapped
InitEnvironment_Swapped(baseImage, containerID, t1, t2) ==
    [image |-> "", base_image |-> baseImage, created |-> t2, last_updated |-> t1,
     description |-> "Environment based on " \o baseImage,
     last_container |-> containerID]

\* lines 135-141 of runInit
InitEnvironment(baseImage, containerID, t1, t2) ==
    [image |-> "", base_image |-> baseImage, created |-> t1, last_updated |-> t2,
     description |-> "Environment based on " \o baseImage,
     last_container |-> containerID]

\* the outcomes of lines 79-90 over the flags and the answers of the model
InitBaseImages ==
    {InitBaseImage(st, cu, line, ty) :
        st \in StarterFlags, cu \in CustomFlags,
        line \in Typed(StarterChoices), ty \in Typed(CustomFlags)}

\* the outcomes of lines 93-109 over the --name flags given and the answers
\* of the model: the name, or the error of the read
InitEnvNames(flags, baseImage) ==
    {[err |-> "", name |-> InitEnvName(nameFlag, "", baseImage)] :
        nameFlag \in flags \ {""}}
    \cup {IF typedName = <<>>
          THEN [err |-> "failed to read environment name", name |-> ""]
          ELSE [err |-> "", name |-> InitEnvName("", typedName[1], baseImage)] :
             typedName \in IF "" \in flags THEN Typed(TypedNames) ELSE {}}

\* lines 78-145 of runInit, the engine being connected and cfg loaded: b is
\* what lines 79-90 gave and n what lines 93-109 gave.  init takes no
\* positional argument; the record of the invocation keeps the environment
\* name as its target.
runInit(p, cfg, n, b) ==
    LET c0 == <<"NewClient">>
        c1 == <<"NewClient", "PullImage">>
        c2 == c1 \o <<"CreateContainer">>
        c3 == c2 \o <<"StartInteractiveContainer">>
        args == <<>>
        finalEnvName == n.name
    IN  IF b.err # "" THEN Fail(p, "init", args, c0, b.err, "")
        ELSE IF n.err # "" THEN Fail(p, "init", args, c0, n.err, "")
        ELSE \/ Fail(p, "init", args, c1, "failed to pull base image", finalEnvName)
             \/ Fail(p, "init", args, c2, "failed to create container", finalEnvName)
             \/ Fail(p, "init", args, c3, "failed to start interactive container",
                     finalEnvName)
             \/ \E containerID \in ContainerIds, t1 \in Readings :
                \E t2 \in NextReadings(t1) :
                  LET env  == InitEnvironment(b.image, containerID, t1, t2)
                      cfg1 == AddEnvironment(cfg, finalEnvName, env)
                  IN  \E s1 \in SaveResults(cfg1, configFile) :
                        IF s1.err # ""
                        THEN Return(p, "init", args, c3,
                                    "failed to save environment to config",
                                    finalEnvName, s1.write, s1.file, t2)
                        ELSE Goes(p, "init", args, c3, finalEnvName, s1.file, t2,
                                  cfg1, finalEnvName)

\* lines 147-159 of runInit: SetCurrentEnvironment and its save, on the
\* Config in memory since the save of the environment
initSetCurrent(p, cfg1, finalEnvName) ==
    LET cfg2 == SetCurrentEnvironment(cfg1, finalEnvName)
    IN  \E s2 \in SaveResults(cfg2, configFile) :
          Return(p, "init", <<>>, running[p].calls,
                 IF s2.err # "" THEN "failed to set current environment" ELSE "ok",
                 finalEnvName, s2.write, s2.file, now)

\* lines 64-76 of runInit: the engine is connected on line 66 and the file
\* loaded on line 73
BeginInit ==
    /\ Prompt
    /\ \E p \in Processes :
         /\ Starts(p)
         /\ \/ Fail(p, "init", <<>>, <<"NewClient">>, "failed to connect to Docker", "")
            \/ \E fs \in FileSystems :
                 LET r == Load(configFile, fs)
                 IN  IF r.err # ""
                     THEN Fail(p, "init", <<>>, <<"NewClient">>, ErrLoad, "")
                     ELSE Begin(p, "init", r.config[1], "")

\* lines 78-145 of runInit: the prompts, the pull, the session and the save
\* of the environment
MidInit ==
    /\ Prompt
    /\ \E p \in Processes :
         /\ At(p, "init", "loaded")
         /\ \E b \in InitBaseImages :
            \E n \in InitEnvNames(NameFlags, b.image) :
              runInit(p, running[p].cfg, n, b)

\* lines 147-159 of runInit: the save of the current environment
EndInit ==
    /\ Prompt
    /\ \E p \in Processes :
         /\ At(p, "init", "saved")
         /\ initSetCurrent(p, running[p].mem, running[p].with)

----------------------------------------------------------------------------
(* cmd: run *)

\* lines 70-82 of runRun, runCommit: the environments the command may target,
\* "" standing for GetCurrentEnvironment having returned no name
TargetEnvs(cfg, args) ==
    IF Len(args) = 0 THEN GetCurrentEnvironment(cfg)
    ELSE {EnsureDevDropPrefix(args[1])}

\* lines 103-121 of runRun without the base image of lines 108-111
RunLocalImage_NoBaseImage(cfg, targetEnv, imageName, exists) ==
    IF exists THEN imageName ELSE ""

\* lines 103-121 of runRun: the image the container is created from; exists is
\* ImageExists(imageName); "" when the image has to be pulled first
RunLocalImage(cfg, targetEnv, imageName, exists) ==
    IF exists THEN imageName
    ELSE IF targetEnv \in DOMAIN cfg.environments
            /\ cfg.environments[targetEnv].base_image # ""
    THEN cfg.environments[targetEnv].base_image
    ELSE ""

\* runRun without the HasEnvironments check of lines 73-75
RunPrecheck_NoEnvCheck(cfg, args, targetEnv) ==
    IF cfg.username = ""
    THEN ErrNotLoggedIn
    ELSE IF Len(args) = 0 /\ targetEnv = ""
    THEN ErrNoCurrent
    ELSE IF GetEnvironmentImageName(cfg, targetEnv) = ""
    THEN "no username configured. Run 'devdrop login' first"
    ELSE ""

\* lines 64-88 of runRun: the error returned before the engine is contacted,
\* "" when there is none
RunPrecheck(cfg, args, targetEnv) ==
    IF cfg.username = ""
    THEN ErrNotLoggedIn
    ELSE IF Len(args) = 0 /\ ~HasEnvironments(cfg)
    THEN ErrNoEnvironments
    ELSE IF Len(args) = 0 /\ targetEnv = ""
    THEN ErrNoCurrent
    ELSE IF GetEnvironmentImageName(cfg, targetEnv) = ""
    THEN "no username configured. Run 'devdrop login' first"
    ELSE ""

\* runRun saving the container it created before the session in it starts,
\* so that a session that fails to start leaves it in the registry
runRun_SavesBeforeSession(p, cfg, args) ==
    \E targetEnv \in TargetEnvs(cfg, args) :
      LET pre       == RunPrecheck(cfg, args, targetEnv)
          imageName == GetEnvironmentImageName(cfg, targetEnv)
          Err(calls, result) == Fail(p, "run", args, calls, result, targetEnv)
      IN  IF pre # "" THEN Fail(p, "run", args, <<>>, pre, "")
          ELSE \/ Err(<<"NewClient">>, "failed to connect to Docker")
               \/ \E exists \in BOOLEAN :
                    LET local    == RunLocalImage(cfg, targetEnv, imageName, exists)
                        useImage == IF local = "" THEN imageName ELSE local
                        c1 == <<"NewClient", Asked("ImageExists", imageName, exists)>>
                        c2 == IF local = "" THEN c1 \o <<Call("PullImage", imageName)>>
                              ELSE c1
                        c3 == c2 \o <<Call("CreateWorkspaceContainer", useImage)>>
                        c4 == c3 \o <<"StartInteractiveContainer">>
                    IN  \/ /\ local = ""
                           /\ Err(c2, "failed to pull environment image")
                        \/ Err(c2, "failed to get current directory")
                        \/ Err(c3, "failed to create container")
                        \/ \E containerID \in ContainerIds, t \in Readings :
                             LET cfg1 == SetEnvironmentContainer(cfg, targetEnv,
                                                                 containerID, t)
                             IN  \E s \in SaveResults(cfg1, configFile) :
                                   \/ Return(p, "run", args, c4,
                                             "failed to start container",
                                             targetEnv, s.write, s.file, t)
                                   \/ Return(p, "run", args, c4,
                                             IF s.err = "" THEN "ok"
                                             ELSE "ok (warning: failed to save container ID to config)",
                                             targetEnv, s.write, s.file, t)

\* lines 64-166 of runRun, cfg being loaded.  filepath.Abs is given the
\* absolute path os.Getwd returned and returns it cleaned, so the return of
\* lines 131-133 is never taken.
runRun(p, cfg, args) ==
    \E targetEnv \in TargetEnvs(cfg, args) :
      LET pre       == RunPrecheck(cfg, args, targetEnv)
          imageName == GetEnvironmentImageName(cfg, targetEnv)
          Err(calls, result) == Fail(p, "run", args, calls, result, targetEnv)
      IN  IF pre # "" THEN Fail(p, "run", args, <<>>, pre, "")
          ELSE \/ Err(<<"NewClient">>, "failed to connect to Docker")
               \/ \E exists \in BOOLEAN :
                    LET local    == RunLocalImage(cfg, targetEnv, imageName, exists)
                        useImage == IF local = "" THEN imageName ELSE local
                        c1 == <<"NewClient", Asked("ImageExists", imageName, exists)>>
                        c2 == IF local = "" THEN c1 \o <<Call("PullImage", imageName)>>
                              ELSE c1
                        c3 == c2 \o <<Call("CreateWorkspaceContainer", useImage)>>
                        c4 == c3 \o <<"StartInteractiveContainer">>
                    IN  \/ /\ local = ""
                           /\ Err(c2, "failed to pull environment image")
                        \/ Err(c2, "failed to get current directory")
                        \/ Err(c3, "failed to create container")
                        \/ Err(c4, "failed to start container")
                        \/ \E containerID \in ContainerIds, t \in Readings :
                             LET cfg1 == SetEnvironmentContainer(cfg, targetEnv,
                                                                 containerID, t)
                             IN  \E s \in SaveResults(cfg1, configFile) :
                                   Return(p, "run", args, c4,
                                          IF s.err = "" THEN "ok"
                                          ELSE "ok (warning: failed to save container ID to config)",
                                          targetEnv, s.write, s.file, t)

\* lines 57-62 of runRun: the file is loaded on line 59
BeginRun ==
    /\ Prompt
    /\ \E p \in Processes :
         /\ Starts(p)
         /\ \E fs \in FileSystems :
              LET r == Load(configFile, fs)
              IN  IF r.err # ""
                  THEN \E args \in RunArgs : Fail(p, "run", args, <<>>, ErrLoad, "")
                  ELSE Begin(p, "run", r.config[1], "")

\* lines 64-166 of runRun: the engine work, the session and the save of line 157
EndRun ==
    /\ Prompt
    /\ \E p \in Processes, args \in RunArgs :
         /\ At(p, "run", "loaded")
         /\ runRun(p, running[p].cfg, args)

----------------------------------------------------------------------------
(* cmd: commit *)

\* runCommit without the check of lines 191-194 for a container to commit
CommitPrecheck_NoContainerCheck(cfg, args, targetEnv) ==
    IF cfg.username = ""
    THEN ErrNotLoggedIn
    ELSE IF cfg.auth_token = ""
    THEN ErrNoToken
    ELSE IF Len(args) = 0 /\ ~HasEnvironments(cfg)
    THEN ErrNoEnvironments
    ELSE IF Len(args) = 0 /\ targetEnv = ""
    THEN ErrNoCurrent
    ELSE IF targetEnv \notin DOMAIN cfg.environments
    THEN ErrEnvNotFound
    ELSE ""

\* lines 159-194 of runCommit: the error returned before the engine is
\* contacted, "" when there is none
CommitPrecheck(cfg, args, targetEnv) ==
    IF cfg.username = ""
    THEN ErrNotLoggedIn
    ELSE IF cfg.auth_token = ""
    THEN ErrNoToken
    ELSE IF Len(args) = 0 /\ ~HasEnvironments(cfg)
    THEN ErrNoEnvironments
    ELSE IF Len(args) = 0 /\ targetEnv = ""
    THEN ErrNoCurrent
    ELSE IF targetEnv \notin DOMAIN cfg.environments
    THEN ErrEnvNotFound
    ELSE IF cfg.environments[targetEnv].last_container = ""
    THEN ErrNoContainer
    ELSE ""

\* containerID[:12] panics when the identifier is shorter
SliceInRange(containerID) == Len(containerID) >= ContainerIdDisplayLen

\* runCommit without line 228, which clears last_container
CommitEnvironment_KeepContainer(env, imageName, t) ==
    [env EXCEPT !.image = imageName, !.last_updated = t]

\* lines 226-228 of runCommit
CommitEnvironment(env, imageName, t) ==
    [env EXCEPT !.image = imageName, !.last_updated = t, !.last_container = ""]

\* runCommit removing the container before it pushes the image
CommitCalls_RemoveFirst(containerID, imageName) ==
    <<"NewClient", Call("CommitContainer", containerID),
      Call("RemoveContainer", containerID), Call("PushImage", imageName)>>

\* lines 197-236 of runCommit: the calls of the engine, in the order made
CommitCalls(containerID, imageName) ==
    <<"NewClient", Call("CommitContainer", containerID),
      Call("PushImage", imageName), Call("RemoveContainer", containerID)>>

\* runCommit returning the error of RemoveContainer instead of printing a
\* warning
runCommit_RemoveFatal(p, cfg, args) ==
    \E targetEnv \in TargetEnvs(cfg, args) :
      LET pre == CommitPrecheck(cfg, args, targetEnv)
          Err(calls, result) == Fail(p, "commit", args, calls, result, targetEnv)
      IN  IF pre # "" THEN Fail(p, "commit", args, <<>>, pre, "")
          ELSE \/ Err(<<"NewClient">>, "failed to connect to Docker")
               \/ LET env         == cfg.environments[targetEnv]
                      containerID == env.last_container
                      imageName   == GetEnvironmentImageName(cfg, targetEnv)
                      all == CommitCalls(containerID, imageName)
                      c1  == SubSeq(all, 1, 2)
                      c2  == SubSeq(all, 1, 3)
                      c3  == all
                  IN  IF ~SliceInRange(containerID)
                      THEN Err(<<"NewClient">>, "panic: slice bounds out of range")
                      ELSE \/ Err(c1, "failed to commit container")
                           \/ Err(c2, "failed to push image")
                           \/ \E t \in Readings :
                                LET cfg1 == AddEnvironment(cfg, targetEnv,
                                              CommitEnvironment(env, imageName, t))
                                IN  \E s \in SaveResults(cfg1, configFile) :
                                      IF s.err # ""
                                      THEN Return(p, "commit", args, c2,
                                                  "failed to update configuration",
                                                  targetEnv, s.write, s.file, t)
                                      ELSE \E removed \in BOOLEAN :
                                             Return(p, "commit", args,
                                                    IF removed THEN c3
                                                    ELSE c2 \o <<Refused("RemoveContainer",
                                                                         containerID)>>,
                                                    IF removed THEN "ok"
                                                    ELSE "failed to remove container",
                                                    targetEnv, s.write, s.file, t)

\* lines 159-248 of runCommit, cfg being loaded
runCommit(p, cfg, args) ==
    \E targetEnv \in TargetEnvs(cfg, args) :
      LET pre == CommitPrecheck(cfg, args, targetEnv)
          Err(calls, result) == Fail(p, "commit", args, calls, result, targetEnv)
      IN  IF pre # "" THEN Fail(p, "commit", args, <<>>, pre, "")
          ELSE \/ Err(<<"NewClient">>, "failed to connect to Docker")
               \/ LET env         == cfg.environments[targetEnv]
                      containerID == env.last_container
                      imageName   == GetEnvironmentImageName(cfg, targetEnv)
                      all == CommitCalls(containerID, imageName)
                      c1  == SubSeq(all, 1, 2)
                      c2  == SubSeq(all, 1, 3)
                      c3  == all
                  IN  IF ~SliceInRange(containerID)
                      THEN Err(<<"NewClient">>, "panic: slice bounds out of range")
                      ELSE \/ Err(c1, "failed to commit container")
                           \/ Err(c2, "failed to push image")
                           \/ \E t \in Readings :
                                LET cfg1 == AddEnvironment(cfg, targetEnv,
                                              CommitEnvironment(env, imageName, t))
                                IN  \E s \in SaveResults(cfg1, configFile) :
                                      IF s.err # ""
                                      THEN Return(p, "commit", args, c2,
                                                  "failed to update configuration",
                                                  targetEnv, s.write, s.file, t)
                                      ELSE \E removed \in BOOLEAN :
                                             Return(p, "commit", args,
                                                    IF removed THEN c3
                                                    ELSE c2 \o <<Refused("RemoveContainer",
                                                                         containerID)>>,
                                                    IF removed THEN "ok"
                                                    ELSE "ok (warning: failed to remove container)",
                                                    targetEnv, s.write, s.file, t)

\* lines 152-157 of runCommit: the file is loaded on line 154
BeginCommit ==
    /\ Prompt
    /\ \E p \in Processes :
         /\ Starts(p)
         /\ \E fs \in FileSystems :
              LET r == Load(configFile, fs)
              IN  IF r.err # ""
                  THEN \E args \in CmdArgs : Fail(p, "commit", args, <<>>, ErrLoad, "")
                  ELSE Begin(p, "commit", r.config[1], "")

\* lines 159-248 of runCommit: the commit and the push, the save of line 230
\* and the removal of the container
EndCommit ==
    /\ Prompt
    /\ \E p \in Processes, args \in CmdArgs :
         /\ At(p, "commit", "loaded")
         /\ runCommit(p, running[p].cfg, args)

----------------------------------------------------------------------------
(* cmd: pull *)

\* ListDevDropRepositories: the repositories of the user whose name has the prefix
ListDevDropRepositories(results) == {r \in results : HasPrefix(r, DevDropPrefix)}

\* lines 301-313 of runPull without line 312 for a record that exists
PullEnvironment_KeepUpdated(cfg, targetEnv, imageName, t1, t2) ==
    IF targetEnv \in DOMAIN cfg.environments
    THEN [cfg.environments[targetEnv] EXCEPT !.image = imageName]
    ELSE [ZeroEnvironment EXCEPT
             !.image = imageName,
             !.base_image = imageName,
             !.created = t1,
             !.last_updated = t2,
             !.description = "Environment pulled from DockerHub ("
                               \o imageName \o ")"]

\* lines 301-313 of runPull
PullEnvironment(cfg, targetEnv, imageName, t1, t2) ==
    LET env == IF targetEnv \in DOMAIN cfg.environments
               THEN cfg.environments[targetEnv]
               ELSE [ZeroEnvironment EXCEPT
                        !.base_image = imageName,
                        !.created = t1,
                        !.description = "Environment pulled from DockerHub ("
                                          \o imageName \o ")"]
    IN  [env EXCEPT !.image = imageName, !.last_updated = t2]

\* lines 269-323 of runPull, the target being chosen; calls are the engine
\* calls made so far.  The error of the Save on line 314 is dropped.
PullImageAndRecord(p, args, cfg, targetEnv, calls) ==
    LET imageName == GetEnvironmentImageName(cfg, targetEnv)
        c1 == calls \o <<"NewClient">>
        c2 == c1 \o <<"PullImage">>
    IN  \/ Fail(p, "pull", args, c1, "failed to connect to Docker", targetEnv)
        \/ Fail(p, "pull", args, c2, "environment not found on DockerHub", targetEnv)
        \/ Fail(p, "pull", args, c2, "failed to pull environment image", targetEnv)
        \/ \E t1 \in Readings :
           \E t2 \in (IF targetEnv \in DOMAIN cfg.environments
                      THEN {t1} ELSE NextReadings(t1)) :
             LET env  == PullEnvironment(cfg, targetEnv, imageName, t1, t2)
                 cfg1 == [cfg EXCEPT !.environments = MapSet(@, targetEnv, env)]
             IN  \E s \in SaveResults(cfg1, configFile) :
                   Return(p, "pull", args, c2, "ok", targetEnv, s.write, s.file, t2)

\* s[i:i+len(substr)] == substr for the first i from start on, -1 if none
RECURSIVE indexOfSubstringFrom(_, _, _)
indexOfSubstringFrom(s, substr, i) ==
    IF i > Len(s) - Len(substr) THEN -1
    ELSE IF SubSeq(s, i + 1, i + Len(substr)) = substr THEN i
    ELSE indexOfSubstringFrom(s, substr, i + 1)

indexOfSubstring(s, substr) == indexOfSubstringFrom(s, substr, 0)

\* the comparison is on the bytes as they are
contains(s, substr) ==
    /\ Len(s) >= Len(substr)
    /\ \/ s = substr
       \/ /\ Len(s) > Len(substr)
          /\ \/ SubSeq(s, 1, Len(substr)) = substr
             \/ SubSeq(s, Len(s) - Len(substr) + 1, Len(s)) = substr
             \/ indexOfSubstring(s, substr) >= 0

NotFoundPatterns == {"not found", "404", "does not exist", "pull access denied"}

\* err is <<>> for nil and <<text>> for an error with that text
isImageNotFoundError(err) ==
    IF err = <<>> THEN FALSE
    ELSE \E pat \in NotFoundPatterns : contains(err[1], pat)

\* lines 367-380 of promptForEnvironmentToPull: the engine calls made and the
\* remote environments listed; none when the engine cannot be connected or
\* the registry does not answer
PullListings ==
    {[calls |-> <<"NewClient">>, remoteEnvs |-> {}],
     [calls |-> <<"NewClient", "ListDevDropRepositories">>, remoteEnvs |-> {}]}
    \cup {[calls |-> <<"NewClient", "ListDevDropRepositories">>,
           remoteEnvs |-> ListDevDropRepositories(results)] : results \in HubResults}

\* lines 248-323 of runPull, cfg being loaded
runPull(p, cfg, args) ==
    IF cfg.username = ""
    THEN Fail(p, "pull", args, <<>>, ErrNotLoggedIn, "")
    ELSE IF Len(args) > 0
    THEN PullImageAndRecord(p, args, cfg, EnsureDevDropPrefix(args[1]), <<>>)
    ELSE IF ~HasEnvironments(cfg)
    THEN Fail(p, "pull", args, <<>>, ErrNoEnvironments, "")
    ELSE \* promptForEnvironmentToPull, promptForLocalEnvironmentToPull
         \E listing \in PullListings :
           LET localEnvs == DOMAIN cfg.environments
               envList   == localEnvs \cup listing.remoteEnvs
               listed    == listing.calls
           IN  \/ Fail(p, "pull", args, listed, "failed to read selection", "")
               \/ Fail(p, "pull", args, listed, "invalid selection", "")
               \/ \E targetEnv \in envList :
                    PullImageAndRecord(p, args, cfg, targetEnv, listed)

\* lines 241-246 of runPull: the file is loaded on line 243
BeginPull ==
    /\ Prompt
    /\ \E p \in Processes :
         /\ Starts(p)
         /\ \E fs \in FileSystems :
              LET r == Load(configFile, fs)
              IN  IF r.err # ""
                  THEN \E args \in CmdArgs : Fail(p, "pull", args, <<>>, ErrLoad, "")
                  ELSE Begin(p, "pull", r.config[1], "")

\* lines 248-323 of runPull: the prompt and the pull, then the save of line 314
EndPull ==
    /\ Prompt
    /\ \E p \in Processes, args \in CmdArgs :
         /\ At(p, "pull", "loaded")
         /\ runPull(p, running[p].cfg, args)

----------------------------------------------------------------------------
(* cmd: switch, ls, status *)

\* line 138 of runSwitch
SwitchTargetExists(cfg, targetEnv) == targetEnv \in DOMAIN cfg.environments

\* lines 121-149 of runSwitch, cfg being loaded.  At the prompt fmt.Scanf
\* fails on input that is not a number, a number out of range is an invalid
\* selection, and a number in range selects any of the environments (the list
\* is in the order of a range over the map).
runSwitch(p, cfg, args) ==
    IF ~HasEnvironments(cfg)
    THEN Fail(p, "switch", args, <<>>, ErrNoEnvironments, "")
    ELSE \/ /\ Len(args) = 0
            /\ \/ Fail(p, "switch", args, <<>>, "invalid input", "")
               \/ Fail(p, "switch", args, <<>>, "invalid selection", "")
         \/ \E targetEnv \in (IF Len(args) = 0 THEN DOMAIN cfg.environments
                              ELSE {EnsureDevDropPrefix(args[1])}) :
              IF ~SwitchTargetExists(cfg, targetEnv)
              THEN Fail(p, "switch", args, <<>>, ErrEnvNotFound, targetEnv)
              ELSE \E s \in SaveResults(SetCurrentEnvironment(cfg, targetEnv), configFile) :
                     Return(p, "switch", args, <<>>,
                            IF s.err # "" THEN "failed to switch environment" ELSE "ok",
                            targetEnv, s.write, s.file, now)

\* lines 115-119 of runSwitch: the file is loaded on line 116
BeginSwitch ==
    /\ Prompt
    /\ \E p \in Processes :
         /\ Starts(p)
         /\ \E fs \in FileSystems :
              LET r == Load(configFile, fs)
              IN  IF r.err # ""
                  THEN \E args \in CmdArgs : Fail(p, "switch", args, <<>>, ErrLoad, "")
                  ELSE Begin(p, "switch", r.config[1], "")

\* lines 121-149 of runSwitch: the prompt, then the save of line 143
EndSwitch ==
    /\ Prompt
    /\ \E p \in Processes, args \in CmdArgs :
         /\ At(p, "switch", "loaded")
         /\ runSwitch(p, running[p].cfg, args)

\* --remote-only changes what is printed, not what is called or returned
RunLs ==
    /\ Prompt
    /\ \E p \in Processes, fs \in FileSystems, localOnly \in BOOLEAN :
         LET r     == Load(configFile, fs)
             flags == IF localOnly THEN <<"--local-only">> ELSE <<>>
             Ret(calls, result) == Fail(p, "ls", flags, calls, result, "")
         IN  /\ Starts(p)
             /\ IF r.err # "" THEN Ret(<<>>, ErrLoad)
                ELSE IF r.config[1].username = ""
                THEN Ret(<<>>, "not logged in. Please run 'devdrop login' first")
                ELSE IF localOnly
                THEN Ret(<<>>, "ok")
                ELSE \/ Ret(<<"NewClient">>, "failed to connect to Docker")
                     \/ \E listed \in BOOLEAN :
                          Ret(<<"NewClient", "ListDevDropRepositories">>,
                              IF listed THEN "ok" ELSE "ok (error fetching remote images)")

RunStatus ==
    /\ Prompt
    /\ \E p \in Processes, fs \in FileSystems :
         LET r == Load(configFile, fs)
             Ret(calls, result, target) == Fail(p, "status", <<>>, calls, result, target)
         IN  /\ Starts(p)
             /\ IF r.err # "" THEN Ret(<<>>, ErrLoad, "")
                ELSE LET cfg == r.config[1]
                     IN  IF cfg.username = "" \/ ~HasEnvironments(cfg)
                         THEN Ret(<<>>, "ok", "")
                         ELSE \E currentEnv \in GetCurrentEnvironment(cfg) :
                                IF currentEnv = ""
                                THEN Ret(<<>>, "ok", "")
                                ELSE IF cfg.environments[currentEnv].last_container # ""
                                THEN Ret(<<"NewClient">>, "ok", currentEnv)
                                ELSE Ret(<<>>, "ok", currentEnv)

----------------------------------------------------------------------------
(* The commands on one config file, from an absent file.  Every command    *)
(* is a process of its own.  Its load is one step (Begin) and each save    *)
(* it makes another, with the part of the handler that leads to it (Mid    *)
(* for the first of two saves, End for the last); the steps of the other   *)
(* processes fall anywhere in between.  ls and status save nothing and     *)
(* load as the last thing they do with the file: they are one step.        *)

Init ==
    /\ configFile = <<>>
    /\ now = 0
    /\ last = NoInvocation
    /\ running = NoneRunning

\* the record of the step that was taken last is put away
Exit ==
    /\ last # NoInvocation
    /\ last' = NoInvocation
    /\ UNCHANGED <<configFile, now, running>>

Next ==
    \/ BeginLogin
    \/ MidLogin
    \/ EndLogin
    \/ BeginInit
    \/ MidInit
    \/ EndInit
    \/ BeginRun
    \/ EndRun
    \/ BeginCommit
    \/ EndCommit
    \/ BeginPull
    \/ EndPull
    \/ BeginSwitch
    \/ EndSwitch
    \/ RunLs
    \/ RunStatus
    \/ Exit

Spec == Init /\ [][Next]_vars

----------------------------------------------------------------------------
(* pkg/config called directly: one call on a registry loaded from a file   *)
(* that devdrop or its user wrote                                          *)

\* names passed to the functions of pkg/config
NameInputs == {"", "go", "devdrop-go", "devdrop-", "devdrop", "default", "Devdrop-x"}

\* Environment records of a loaded file; a record written without
\* last_updated loads with the zero time
SampleEnvironments ==
    {ZeroEnvironment,
     [image |-> "alice/devdrop-go:latest", base_image |-> "golang:latest",
      created |-> 1, last_updated |-> 1, description |-> "Environment based on golang:latest",
      last_container |-> "77aa01bc93de55"],
     [image |-> "", base_image |-> "ubuntu:24.04", created |-> 1, last_updated |-> 2,
      description |-> "", last_container |-> ""],
     [image |-> "alice/devdrop-py:latest", base_image |-> "alice/devdrop-py:latest",
      created |-> 2, last_updated |-> 2, description |-> "", last_container |-> ""]}

SampleKeys == {"devdrop-go", "devdrop-py"}

SampleCurrent == {"", "devdrop-go", "devdrop-gone"}

SampleConfigs ==
    {[username |-> u, base_image |-> defaultBaseImage, last_container |-> "",
      auth_token |-> IF u = "" THEN "" ELSE createAuthToken(u, "pw"),
      current_environment |-> cur, environments |-> envs] :
        u \in Usernames, cur \in SampleCurrent,
        envs \in UNION {[S -> SampleEnvironments] : S \in SUBSET SampleKeys}}

\* the time of the latest reading in the sample files
SampleNow ==
    LET T == {e.last_updated : e \in SampleEnvironments}
    IN  CHOOSE t \in T : \A u \in T : u <= t

InitApi ==
    /\ configFile \in {Saved(c) : c \in SampleConfigs}
    /\ now = SampleNow
    /\ last = NoInvocation
    /\ running = NoneRunning

\* Each call is made on the Config that config.Load() gives for the file; a
\* method that saves returns the error of Save.

ApiEnsureDevDropPrefix ==
    /\ last = NoInvocation
    /\ \E s \in NameInputs :
         Fail(Alone, "EnsureDevDropPrefix", <<s>>, <<>>, "ok", EnsureDevDropPrefix(s))

ApiGetCurrentEnvironment ==
    /\ last = NoInvocation
    /\ \E r \in GetCurrentEnvironment(Persisted(configFile)) :
         Fail(Alone, "GetCurrentEnvironment", <<>>, <<>>, "ok", r)

ApiAddEnvironment ==
    /\ last = NoInvocation
    /\ \E name \in NameInputs, env \in SampleEnvironments :
       \E s \in Save(AddEnvironment(Persisted(configFile), name, env), configFile) :
         Return(Alone, "AddEnvironment", <<name, env>>, <<>>, IF s.err = "" THEN "ok" ELSE s.err, "",
                s.write, s.file, now)

ApiSetEnvironmentContainer ==
    /\ last = NoInvocation
    /\ \E envName \in NameInputs, containerID \in ContainerIds \cup {""},
          t \in {now + 1} :
       \E s \in Save(SetEnvironmentContainer(Persisted(configFile), envName, containerID, t), configFile) :
         Return(Alone, "SetEnvironmentContainer", <<envName, containerID>>, <<>>,
                IF s.err = "" THEN "ok" ELSE s.err, "", s.write, s.file, t)

ApiSetLastContainer ==
    /\ last = NoInvocation
    /\ \E containerID \in ContainerIds \cup {""} :
       \E s \in Save(SetLastContainer(Persisted(configFile), containerID), configFile) :
         Return(Alone, "SetLastContainer", <<containerID>>, <<>>, IF s.err = "" THEN "ok" ELSE s.err, "",
                s.write, s.file, now)

ApiGetEnvironmentImageName ==
    /\ last = NoInvocation
    /\ \E envName \in NameInputs :
         Fail(Alone, "GetEnvironmentImageName", <<envName>>, <<>>, "ok",
              GetEnvironmentImageName(Persisted(configFile), envName))

\* errors a pull can end with: nil, and what PullImage wraps of the engine's
\* and the registry's answers
PullErrors ==
    {<<>>,
     <<"">>,
     <<"404">>,
     <<"not found">>,
     <<"pull access denied for alice/devdrop-go">>,
     <<"failed to pull image alice/devdrop-go:latest: manifest unknown">>,
     <<"failed to pull image alice/devdrop-go:latest: repository does not exist or may require 'docker login'">>,
     <<"failed to pull image alice/devdrop-go:latest: manifest for alice/devdrop-go:latest not found">>,
     <<"failed to pull image alice/devdrop-go:latest: Not Found">>,
     <<"failed to pull image alice/devdrop-go:latest: Pull Access Denied">>,
     <<"failed to pull image alice/devdrop-go:latest: unexpected status 404 from registry">>,
     <<"failed to pull image alice/devdrop-go:latest: connection refused">>,
     <<"failed to pull image alice/devdrop-go:latest: i/o timeout">>}

ApiIsImageNotFoundError ==
    /\ last = NoInvocation
    /\ \E err \in PullErrors :
         Fail(Alone, "isImageNotFoundError", err, <<>>,
              IF isImageNotFoundError(err) THEN "true" ELSE "false", "")

NextApi ==
    \/ ApiIsImageNotFoundError
    \/ ApiEnsureDevDropPrefix
    \/ ApiGetCurrentEnvironment
    \/ ApiAddEnvironment
    \/ ApiSetEnvironmentContainer
    \/ ApiSetLastContainer
    \/ ApiGetEnvironmentImageName

SpecApi == InitApi /\ [][NextApi]_vars

----------------------------------------------------------------------------
(* gopkg.in/yaml.v3: the documents config.yaml may hold, and the Config     *)
(* struct they are decoded into and encoded from                            *)

\* A document is a scalar, a null (the empty file is one), a mapping (its
\* keys with their documents, in the order they are written), a sequence or
\* bytes that are not YAML.
Scalar(s) == [kind |-> "scalar", text |-> s, pairs |-> <<>>]

Null == [kind |-> "null", text |-> "", pairs |-> <<>>]

Mapping(ps) == [kind |-> "mapping", text |-> "", pairs |-> ps]

Sequence == [kind |-> "sequence", text |-> "", pairs |-> <<>>]

NotYaml(s) == [kind |-> "not yaml", text |-> s, pairs |-> <<>>]

\* time.Time.Format(time.RFC3339Nano), as yaml.v3 writes a time.Time
FormatTime(t) ==
    IF t = ZeroTime THEN "0001-01-01T00:00:00Z"
    ELSE "2025-01-01T00:00:0" \o SubSeq("0123456789", t + 1, t + 1) \o "Z"

\* the reading of a timestamp scalar: err when the text is not a timestamp
ParseTime(s) ==
    LET T == {t \in 0..9 : FormatTime(t) = s}
    IN  IF T = {} THEN [err |-> TRUE, value |-> ZeroTime]
        ELSE [err |-> FALSE, value |-> CHOOSE t \in T : TRUE]

\* the Config struct in memory: environments is <<>> for a nil map and <<m>>
\* for the map m
ZeroConfig ==
    [username |-> "", base_image |-> "", last_container |-> "", auth_token |-> "",
     current_environment |-> "", environments |-> <<>>]

\* yaml.v3 rejects a mapping that writes a key twice
UniqueKeys(ps) == \A i, j \in DOMAIN ps : ps[i][1] = ps[j][1] => i = j

\* the document under key k of a mapping: <<>> when the key is not written
Field(ps, k) ==
    LET at == {i \in DOMAIN ps : ps[i][1] = k}
    IN  IF at = {} THEN <<>> ELSE <<ps[CHOOSE i \in at : TRUE][2]>>

\* decoding into a string field; a key that is not written leaves ""
DecodeString(ps, k) ==
    LET v == Field(ps, k)
    IN  IF v = <<>> THEN [err |-> FALSE, value |-> ""]
        ELSE IF v[1].kind = "null" THEN [err |-> FALSE, value |-> ""]
        ELSE IF v[1].kind = "scalar" THEN [err |-> FALSE, value |-> v[1].text]
        ELSE [err |-> TRUE, value |-> ""]

\* decoding into a time.Time field; a key that is not written leaves the zero
\* time.  A mapping is decoded into the struct time.Time, which has no field
\* to set: its keys are skipped and the time stays zero.
DecodeTime(ps, k) ==
    LET v == Field(ps, k)
    IN  IF v = <<>> THEN [err |-> FALSE, value |-> ZeroTime]
        ELSE IF v[1].kind = "null" THEN [err |-> FALSE, value |-> ZeroTime]
        ELSE IF v[1].kind = "scalar" THEN ParseTime(v[1].text)
        ELSE IF v[1].kind = "mapping"
        THEN [err |-> ~UniqueKeys(v[1].pairs), value |-> ZeroTime]
        ELSE [err |-> TRUE, value |-> ZeroTime]

\* decoding into an Environment that has the fields of the first revision of
\* the struct only: image, created, last_updated, description
UnmarshalEnvironment_FirstRevision(n) ==
    IF n.kind = "null" THEN [err |-> FALSE, value |-> ZeroEnvironment]
    ELSE IF n.kind # "mapping" THEN [err |-> TRUE, value |-> ZeroEnvironment]
    ELSE LET image       == DecodeString(n.pairs, "image")
             created     == DecodeTime(n.pairs, "created")
             lastUpdated == DecodeTime(n.pairs, "last_updated")
             description == DecodeString(n.pairs, "description")
         IN  [err   |-> \/ ~UniqueKeys(n.pairs)
                        \/ image.err \/ created.err \/ lastUpdated.err
                        \/ description.err,
              value |-> [image |-> image.value, base_image |-> "",
                         created |-> created.value,
                         last_updated |-> lastUpdated.value,
                         description |-> description.value,
                         last_container |-> ""]]

\* decoding into an Environment (the yaml tags of the struct)
UnmarshalEnvironment(n) ==
    IF n.kind = "null" THEN [err |-> FALSE, value |-> ZeroEnvironment]
    ELSE IF n.kind # "mapping" THEN [err |-> TRUE, value |-> ZeroEnvironment]
    ELSE LET image         == DecodeString(n.pairs, "image")
             baseImage     == DecodeString(n.pairs, "base_image")
             created       == DecodeTime(n.pairs, "created")
             lastUpdated   == DecodeTime(n.pairs, "last_updated")
             description   == DecodeString(n.pairs, "description")
             lastContainer == DecodeString(n.pairs, "last_container")
         IN  [err   |-> \/ ~UniqueKeys(n.pairs)
                        \/ image.err \/ baseImage.err \/ created.err
                        \/ lastUpdated.err \/ description.err \/ lastContainer.err,
              value |-> [image |-> image.value, base_image |-> baseImage.value,
                         created |-> created.value,
                         last_updated |-> lastUpdated.value,
                         description |-> description.value,
                         last_container |-> lastContainer.value]]

\* decoding into the environments field: a key that is not written, or a
\* null, leaves the nil map
UnmarshalEnvironments(ps) ==
    LET v == Field(ps, "environments")
    IN  IF v = <<>> THEN [err |-> FALSE, value |-> <<>>]
        ELSE IF v[1].kind = "null" THEN [err |-> FALSE, value |-> <<>>]
        ELSE IF v[1].kind # "mapping" THEN [err |-> TRUE, value |-> <<>>]
        ELSE LET eps  == v[1].pairs
                 keys == {eps[i][1] : i \in DOMAIN eps}
                 dec  == [k \in keys |-> UnmarshalEnvironment(Field(eps, k)[1])]
             IN  [err   |-> ~UniqueKeys(eps) \/ \E k \in keys : dec[k].err,
                  value |-> <<[k \in keys |-> dec[k].value]>>]

\* yaml.Unmarshal(data, &config) on a zero Config; keys that are not fields
\* of the struct are skipped
Unmarshal(doc) ==
    IF doc.kind = "null" THEN [err |-> FALSE, value |-> ZeroConfig]
    ELSE IF doc.kind # "mapping" THEN [err |-> TRUE, value |-> ZeroConfig]
    ELSE LET ps                 == doc.pairs
             username           == DecodeString(ps, "username")
             baseImage          == DecodeString(ps, "base_image")
             lastContainer      == DecodeString(ps, "last_container")
             authToken          == DecodeString(ps, "auth_token")
             currentEnvironment == DecodeString(ps, "current_environment")
             environments       == UnmarshalEnvironments(ps)
         IN  [err   |-> \/ ~UniqueKeys(ps)
                        \/ username.err \/ baseImage.err \/ lastContainer.err
                        \/ authToken.err \/ currentEnvironment.err
                        \/ environments.err,
              value |-> [username |-> username.value,
                         base_image |-> baseImage.value,
                         last_container |-> lastContainer.value,
                         auth_token |-> authToken.value,
                         current_environment |-> currentEnvironment.value,
                         environments |-> environments.value]]

\* a field tagged omitempty is written only when it is not empty
OmitEmpty(k, s) == IF s = "" THEN <<>> ELSE <<<<k, Scalar(s)>>>>

\* encoding of an Environment: the fields in the order of the struct
MarshalEnvironment(e) ==
    Mapping(<<<<"image", Scalar(e.image)>>,
              <<"base_image", Scalar(e.base_image)>>,
              <<"created", Scalar(FormatTime(e.created))>>,
              <<"last_updated", Scalar(FormatTime(e.last_updated))>>>>
            \o OmitEmpty("description", e.description)
            \o OmitEmpty("last_container", e.last_container))

\* encoding of the environments field; a nil map is written as an empty mapping
MarshalEnvironments(envs) ==
    IF envs = <<>> THEN Mapping(<<>>)
    ELSE LET m    == envs[1]
             keys == SortedKeys(DOMAIN m)
         IN  Mapping([i \in 1..Len(keys) |-> <<keys[i], MarshalEnvironment(m[keys[i]])>>])

\* yaml.Marshal(c): the fields in the order of the struct
Marshal(c) ==
    Mapping(<<<<"username", Scalar(c.username)>>,
              <<"base_image", Scalar(c.base_image)>>>>
            \o OmitEmpty("last_container", c.last_container)
            \o OmitEmpty("auth_token", c.auth_token)
            \o OmitEmpty("current_environment", c.current_environment)
            \o <<<<"environments", MarshalEnvironments(c.environments)>>>>)

\* Load without lines 453-456, which give a Config decoded without
\* environments an empty map
LoadFile_NoMapCheck(f, fs) ==
    IF fs = "no home directory"
    THEN [err |-> "failed to get home directory", config |-> <<>>]
    ELSE IF f = <<>> /\ fs = "ok"
    THEN [err |-> "",
          config |-> <<[ZeroConfig EXCEPT !.base_image = defaultBaseImage,
                                          !.environments = <<EmptyEnvironments>>]>>]
    ELSE IF fs = "unreadable"
    THEN [err |-> "failed to read config file", config |-> <<>>]
    ELSE LET u == Unmarshal(f[1])
         IN  IF u.err
             THEN [err |-> "failed to parse config file", config |-> <<>>]
             ELSE [err |-> "", config |-> <<u.value>>]

\* Load over the bytes of the file: f is <<>> when config.yaml is absent and
\* <<doc>> when it holds doc, fs is what the file system answers; config is
\* <<>> for the nil pointer and <<c>> for a pointer to c
LoadFile(f, fs) ==
    IF fs = "no home directory"
    THEN [err |-> "failed to get home directory", config |-> <<>>]
    ELSE IF f = <<>> /\ fs = "ok"
    THEN [err |-> "",
          config |-> <<[ZeroConfig EXCEPT !.base_image = defaultBaseImage,
                                          !.environments = <<EmptyEnvironments>>]>>]
    ELSE IF fs = "unreadable"
    THEN [err |-> "failed to read config file", config |-> <<>>]
    ELSE LET u == Unmarshal(f[1])
         IN  IF u.err
             THEN [err |-> "failed to parse config file", config |-> <<>>]
             ELSE IF u.value.environments = <<>>
             THEN [err |-> "",
                   config |-> <<[u.value EXCEPT !.environments = <<EmptyEnvironments>>]>>]
             ELSE [err |-> "", config |-> <<u.value>>]

\* what a write of doc that failed after the file was opened may leave in
\* the file: the lines of doc up to some line, doc itself included, or lines
\* and a part of the next, which is not YAML when it ends inside a key.
\* TopLines: the first n lines, which end above the environments key (the
\* empty file for n = 0).  EnvironmentLines: the lines up to the m-th line of
\* the j-th environment, that is the environments before it whole and of
\* the j-th its key (m = 0, the key holds a null) or its first m fields; for
\* j = 0 the lines up to the environments key.
TornDocuments(doc) ==
    LET top  == SubSeq(doc.pairs, 1, Len(doc.pairs) - 1)
        envs == doc.pairs[Len(doc.pairs)][2].pairs
        TopLines(n) == IF n = 0 THEN Null ELSE Mapping(SubSeq(doc.pairs, 1, n))
        EnvironmentLines(j, m) ==
            LET cut == IF m = 0 THEN Null ELSE Mapping(SubSeq(envs[j][2].pairs, 1, m))
            IN  IF j = 0 THEN Mapping(top \o <<<<"environments", Null>>>>)
                ELSE Mapping(top \o <<<<"environments",
                                Mapping(SubSeq(envs, 1, j - 1) \o <<<<envs[j][1], cut>>>>)>>>>)
    IN  {TopLines(n) : n \in 0..(Len(doc.pairs) - 1)}
        \cup (IF envs = <<>> THEN {doc}
              ELSE {EnvironmentLines(0, 0)}
                   \cup UNION {{EnvironmentLines(j, m) :
                                   m \in 0..Len(envs[j][2].pairs)} :
                               j \in 1..Len(envs)})
        \cup {NotYaml("usern")}

\* Save over the bytes of the file: the outcomes, as those of Save
SaveFile(c, f) ==
    {[err |-> "", write |-> "whole", file |-> <<Marshal(c)>>]}
    \cup {[err |-> e, write |-> "none", file |-> f] :
             e \in {"failed to get home directory", "failed to create config directory",
                    "failed to write config file"}}
    \cup {[err |-> "failed to write config file", write |-> "torn", file |-> <<d>>] :
             d \in TornDocuments(Marshal(c))}

----------------------------------------------------------------------------
(* pkg/config called directly on a file that devdrop wrote, that its user  *)
(* edited or that is not a registry at all                                 *)

\* the Config struct of a registry of the model
ConfigStruct(c) == [c EXCEPT !.environments = <<c.environments>>]

\* the files Save wrote
SavedDocuments ==
    {Marshal(ConfigStruct([c EXCEPT !.last_container = lc])) :
        c \in SampleConfigs, lc \in ContainerIds \cup {""}}

\* a mapping without key k
WithoutKey(doc, k) == Mapping(SelectSeq(doc.pairs, LAMBDA p : p[1] # k))

\* a mapping with its keys in the opposite order
Reversed(doc) ==
    Mapping([i \in 1..Len(doc.pairs) |-> doc.pairs[Len(doc.pairs) + 1 - i]])

\* a mapping whose key k holds the document v
WithField(doc, k, v) ==
    Mapping([i \in 1..Len(doc.pairs) |->
                IF doc.pairs[i][1] = k THEN <<k, v>> ELSE doc.pairs[i]])

\* files an editor left (WithEnvironmentField: the document, key k of each of
\* its environments holding v)
EditedDocuments ==
    LET WithEnvironmentField(doc, k, v) ==
            LET envs == Field(doc.pairs, "environments")[1]
            IN  WithField(doc, "environments",
                          Mapping([i \in 1..Len(envs.pairs) |->
                                      <<envs.pairs[i][1],
                                        WithField(envs.pairs[i][2], k, v)>>]))
    IN
    UNION {{WithoutKey(d, "environments"),
            WithoutKey(d, "base_image"),
            WithField(d, "environments", Null),
            WithField(d, "environments", Scalar("none")),
            WithEnvironmentField(d, "created", Mapping(<<<<"year", Scalar("2025")>>>>)),
            WithEnvironmentField(d, "last_updated", Sequence),
            Reversed(d)} : d \in SavedDocuments}

\* files that hold no mapping: the empty file, a line of text, a broken flow
\* sequence
OtherDocuments == {Null, Scalar("devdrop"), NotYaml("environments: [")}

SampleFiles ==
    {<<>>} \cup {<<d>> : d \in SavedDocuments \cup EditedDocuments \cup OtherDocuments}

InitFile ==
    /\ configFile \in SampleFiles
    /\ now = SampleNow
    /\ last = NoInvocation
    /\ running = NoneRunning

\* cfg, err := config.Load()
FileLoad ==
    /\ last = NoInvocation
    /\ \E fs \in FileSystems :
         LET r == LoadFile(configFile, fs)
         IN  Fail(Alone, "Load", <<fs>>, <<>>, IF r.err = "" THEN "ok" ELSE r.err,
                  r.config)

\* cfg, err := config.Load() followed by cfg.Save()
FileLoadSave ==
    /\ last = NoInvocation
    /\ \E fs \in FileSystems :
         LET r == LoadFile(configFile, fs)
         IN  IF r.err # ""
             THEN Fail(Alone, "Load, Save", <<fs>>, <<>>, r.err, r.config)
             ELSE \E s \in SaveFile(r.config[1], configFile) :
                    Return(Alone, "Load, Save", <<fs>>, <<>>, IF s.err = "" THEN "ok" ELSE s.err, r.config,
                           s.write, s.file, now)

NextFile ==
    \/ FileLoad
    \/ FileLoadSave

SpecFile == InitFile /\ [][NextFile]_vars

----------------------------------------------------------------------------
(* commit on a loaded registry: the file holds what earlier sessions and   *)
(* the user's editor left in it                                            *)

\* records of a loaded file: an environment with a session to commit, and
\* one whose last_container is not an identifier the engine gave
CommitSampleEnvironments ==
    [k \in SampleKeys |->
        IF k = "devdrop-go"
        THEN [image |-> "", base_image |-> "golang:latest", created |-> 1,
              last_updated |-> 1, description |-> "Environment based on golang:latest",
              last_container |-> "4f1c2a9be07d33"]
        ELSE [image |-> "", base_image |-> "ubuntu:24.04", created |-> 0,
              last_updated |-> 0, description |-> "", last_container |-> "4f1c2a"]]

\* the registries of a user who is logged in and has the two environments
CommitSampleConfigs ==
    {[username |-> "alice", base_image |-> defaultBaseImage, last_container |-> "",
      auth_token |-> createAuthToken("alice", "pw"),
      current_environment |-> cur, environments |-> CommitSampleEnvironments] :
        cur \in {"", "devdrop-go"}}

\* the time of the latest reading in the sample files
CommitSampleNow ==
    LET T == {CommitSampleEnvironments[k].last_updated : k \in SampleKeys}
    IN  CHOOSE t \in T : \A u \in T : u <= t

InitCommit ==
    /\ configFile \in {Saved(c) : c \in CommitSampleConfigs}
    /\ now = CommitSampleNow
    /\ last = NoInvocation
    /\ running = NoneRunning

SpecCommit == InitCommit /\ [][Next]_vars

----------------------------------------------------------------------------
(* Properties *)

\* the persisted registry, as the next command loads it
Registry == Persisted(configFile)

Keys == DOMAIN Registry.environments

\* the step has returned the invocation to the shell
Returned(inv) == inv.result # ""

\* s is "devdrop-" followed by some string
CarriesPrefix(s) == \E n \in 0..Len(s) : s = "devdrop-" \o SubSeq(s, Len(s) - n + 1, Len(s))

\* C1: GetCurrentEnvironment returns current_environment when it is non-empty
\* and a key of environments; otherwise a key whose last_updated is maximal
\* among all environments; and the empty string when environments is empty.
C1_ResolveCurrentEnvironment ==
    last.op = "GetCurrentEnvironment" =>
        LET cfg  == Registry
            envs == cfg.environments
            r    == last.target
        IN  IF cfg.current_environment # "" /\ cfg.current_environment \in DOMAIN envs
            THEN r = cfg.current_environment
            ELSE IF DOMAIN envs = {}
            THEN r = ""
            ELSE /\ r \in DOMAIN envs
                 /\ \A k \in DOMAIN envs : envs[k].last_updated <= envs[r].last_updated

\* C2: EnsureDevDropPrefix returns "devdrop-default" for the empty string, its
\* argument when the argument starts with "devdrop-", and "devdrop-" followed
\* by the argument otherwise; applying it to its result changes nothing.
C2_EnsurePrefix ==
    last.op = "EnsureDevDropPrefix" =>
        LET s == last.args[1]
            r == last.target
        IN  /\ s = "" => r = "devdrop-default"
            /\ (s # "" /\ CarriesPrefix(s)) => r = s
            /\ (s # "" /\ ~CarriesPrefix(s)) => r = "devdrop-" \o s
            /\ EnsureDevDropPrefix(r) = r

\* C2 witness: the function was applied to a name without the prefix
C2_Witness ==
    /\ last.op = "EnsureDevDropPrefix"
    /\ last.args = <<"go">>
    /\ last.target = "devdrop-go"

\* C3: from an absent config file, after any sequence of commands every key of
\* the persisted environments map is non-empty and starts with "devdrop-".
C3_KeysPrefixed ==
    \A k \in Keys : k # "" /\ CarriesPrefix(k)

\* C3 witness: init wrote one environment and run, given the empty name,
\* another
C3_Witness ==
    /\ Keys = {"devdrop-go", "devdrop-default"}
    /\ Registry.environments["devdrop-go"].base_image # ""
    /\ Registry.environments["devdrop-default"].last_container # ""

\* C4: a commit by name that succeeds, the one that follows a completed init
\* of the name among them, was made by a logged-in user and leaves the
\* environment with an empty last_container, the image
\* "<username>/<name>:latest" and a last_updated later than its created.
C4_InitThenCommit ==
    [][(/\ last'.op = "commit" /\ Succeeded(last')
        /\ Len(last'.args) = 1)
       => LET cfg == Persisted(configFile')
              k   == last'.target
              env == cfg.environments[k]
          IN  /\ k = EnsureDevDropPrefix(last'.args[1])
              /\ k \in DOMAIN cfg.environments
              /\ cfg.username # "" /\ cfg.auth_token # ""
              /\ env.last_container = ""
              /\ env.image = cfg.username \o "/" \o k \o ":latest"
              /\ env.last_updated > env.created]_vars

\* C4 witness: devdrop-go, which init wrote from the golang image, was
\* committed by name and holds the image of alice
C4_Witness ==
    /\ last.op = "commit" /\ last.result = "ok"
    /\ last.args = <<"go">>
    /\ "devdrop-go" \in DOMAIN last.loaded.environments
    /\ last.loaded.environments["devdrop-go"].base_image = "golang:latest"
    /\ last.loaded.environments["devdrop-go"].last_container # ""
    /\ last.loaded.environments["devdrop-go"].image = ""
    /\ "devdrop-go" \in Keys
    /\ Registry.environments["devdrop-go"].image = "alice/devdrop-go:latest"
    /\ Registry.environments["devdrop-go"].base_image = "golang:latest"
    /\ Registry.environments["devdrop-go"].last_container = ""

\* C5: a commit that calls the engine, changes the persisted registry or
\* succeeds was given a registry with a username, an auth token and a target
\* environment that exists and has a last_container; so without one of these
\* commit calls nothing, writes nothing and returns an error.
C5_CommitFailsFast ==
    [][(/\ last'.op = "commit"
        /\ \/ last'.calls # <<>>
           \/ configFile' # configFile
           \/ Succeeded(last'))
       => LET cfg == last'.loaded
          IN  /\ cfg.username # ""
              /\ cfg.auth_token # ""
              /\ last'.target \in DOMAIN cfg.environments
              /\ cfg.environments[last'.target].last_container # ""]_vars

\* C5 witness: a logged-in user commits an environment that exists and has no
\* container; nothing was called
C5_Witness ==
    /\ last.op = "commit"
    /\ last.result = ErrNoContainer
    /\ last.calls = <<>>
    /\ Registry.username # "" /\ Registry.auth_token # ""

\* C6: switch, having loaded the registry, with a name whose normalized form
\* is not a key of its environments returns the environment-not-found error
\* and leaves the persisted registry, current_environment included, unchanged.
C6_SwitchUnknown ==
    [][(/\ last'.op = "switch"
        /\ last'.result # ErrLoad
        /\ Len(last'.args) = 1
        /\ EnsureDevDropPrefix(last'.args[1]) \notin DOMAIN last'.loaded.environments)
       => /\ last'.result = ErrEnvNotFound
          /\ configFile' = configFile
          /\ Persisted(configFile').current_environment
               = Persisted(configFile).current_environment]_vars

\* C7 (as stated): when the registry that run loaded has no environments, run
\* fails with the error that directs to init and calls nothing of the engine,
\* with or without an environment name.
C7_RunNoEnvironments_Original ==
    [][(/\ last'.op = "run"
        /\ last'.result # ErrLoad
        /\ ~HasEnvironments(last'.loaded))
       => /\ last'.result = ErrNoEnvironments
          /\ last'.calls = <<>>]_vars

\* C7 (amended): when the registry that run loaded has no environments and
\* run is given no name, run calls nothing of the engine, writes nothing and
\* fails: with the error that directs to init when a username is set, with
\* the error that directs to login otherwise.
C7_RunNoEnvironments ==
    [][(/\ last'.op = "run"
        /\ last'.result # ErrLoad
        /\ Len(last'.args) = 0
        /\ ~HasEnvironments(last'.loaded))
       => /\ last'.result = IF last'.loaded.username # ""
                            THEN ErrNoEnvironments ELSE ErrNotLoggedIn
          /\ last'.calls = <<>>
          /\ configFile' = configFile]_vars

\* C7 witness: a logged-in user ran run without a name and without environments
C7_Witness ==
    /\ last.op = "run"
    /\ last.args = <<>>
    /\ last.result = ErrNoEnvironments
    /\ Registry.username # ""
    /\ Keys = {}

\* C8: once a key is in the persisted registry, its created timestamp is the
\* same in every later state.
C8_CreatedImmutable ==
    [][\A k \in DOMAIN Persisted(configFile).environments :
          /\ k \in DOMAIN Persisted(configFile').environments
          /\ Persisted(configFile').environments[k].created
               = Persisted(configFile).environments[k].created]_vars

\* C9: AddEnvironment(name, env), when its save succeeds, leaves env under the
\* key EnsureDevDropPrefix(name) of the persisted registry.
C9_AddEnvironmentNormalizes ==
    (last.op = "AddEnvironment" /\ last.result = "ok") =>
        LET key == EnsureDevDropPrefix(last.args[1])
        IN  /\ key \in Keys
            /\ Registry.environments[key] = last.args[2]

\* C10: SetEnvironmentContainer(name, id) whose save succeeds changes only the
\* record under the normalized name: last_container is id, last_updated is
\* the time of the call, the other fields are those of the existing record or
\* empty for a new one; every other environment and username, auth_token,
\* base_image, last_container and current_environment of the registry are
\* unchanged.
C10_SetContainerFrame ==
    [][(last'.op = "SetEnvironmentContainer" /\ last'.result = "ok") =>
        LET pre  == Persisted(configFile)
            post == Persisted(configFile')
            key  == EnsureDevDropPrefix(last'.args[1])
            old  == IF key \in DOMAIN pre.environments
                    THEN pre.environments[key] ELSE ZeroEnvironment
        IN  /\ DOMAIN post.environments = DOMAIN pre.environments \cup {key}
            /\ post.environments[key].last_container = last'.args[2]
            /\ post.environments[key].last_updated = now'
            /\ now' > now
            /\ post.environments[key].image = old.image
            /\ post.environments[key].base_image = old.base_image
            /\ post.environments[key].created = old.created
            /\ post.environments[key].description = old.description
            /\ \A k \in DOMAIN pre.environments \ {key} :
                  post.environments[k] = pre.environments[k]
            /\ post.username = pre.username
            /\ post.auth_token = pre.auth_token
            /\ post.base_image = pre.base_image
            /\ post.last_container = pre.last_container
            /\ post.current_environment = pre.current_environment]_vars

\* C10 witness: the container of an existing, committed environment was set
\* through the name without prefix, next to another environment
C10_Witness ==
    /\ last.op = "SetEnvironmentContainer" /\ last.result = "ok"
    /\ last.args = <<"go", "4f1c2a9be07d33">>
    /\ Keys = {"devdrop-go", "devdrop-py"}
    /\ Registry.environments["devdrop-go"].image = "alice/devdrop-go:latest"
    /\ Registry.environments["devdrop-go"].last_container = "4f1c2a9be07d33"
    /\ Registry.environments["devdrop-go"].last_updated = now

\* the file is there and does not hold a registry: it is not YAML, it holds a
\* scalar, or its environments key holds a scalar or an environment with a
\* sequence for its last_updated
Malformed(f) ==
    /\ f # <<>>
    /\ \/ f[1].kind \in {"not yaml", "scalar"}
       \/ /\ f[1].kind = "mapping"
          /\ \E i \in DOMAIN f[1].pairs :
                /\ f[1].pairs[i][1] = "environments"
                /\ \/ f[1].pairs[i][2].kind = "scalar"
                   \/ /\ f[1].pairs[i][2].kind = "mapping"
                      /\ \E j \in DOMAIN f[1].pairs[i][2].pairs :
                            Field(f[1].pairs[i][2].pairs[j][2].pairs, "last_updated")
                              = <<Sequence>>

\* C11: where the home directory is known and the file system tells whether
\* the file is there and lets it be read, Load of an absent file returns,
\* without error, a Config with base_image "ubuntu:24.04" and an empty
\* environments map that is not nil, and Load of a malformed file returns the
\* parse error and no Config; and every Config that Load returns without
\* error has an environments map that is not nil, also when the file writes
\* no environments key.
C11_Load ==
    last.op = "Load" =>
        /\ (configFile = <<>> /\ last.args = <<"ok">>) =>
              /\ last.result = "ok"
              /\ last.target # <<>>
              /\ last.target[1].base_image = "ubuntu:24.04"
              /\ last.target[1].environments = <<EmptyEnvironments>>
        /\ (Malformed(configFile) /\ last.args = <<"ok">>) =>
              /\ last.result = "failed to parse config file"
              /\ last.target = <<>>
        /\ last.result = "ok" =>
              /\ last.target # <<>>
              /\ last.target[1].environments # <<>>

\* C11 witness: Load returned the registry of alice from a file that writes
\* no environments key
C11_Witness ==
    /\ last.op = "Load" /\ last.result = "ok"
    /\ last.args = <<"ok">>
    /\ configFile # <<>>
    /\ configFile[1].kind = "mapping"
    /\ Field(configFile[1].pairs, "environments") = <<>>
    /\ last.target[1].username = "alice"
    /\ last.target[1].environments = <<EmptyEnvironments>>

\* C12: GetEnvironmentImageName(n) on a registry with username u returns the
\* empty string when u is empty and u, "/", EnsureDevDropPrefix(n), ":latest"
\* put together otherwise; for alice and devdrop-go that is
\* "alice/devdrop-go:latest".
C12_ImageName ==
    last.op = "GetEnvironmentImageName" =>
        LET u == Registry.username
            n == last.args[1]
        IN  /\ u = "" => last.target = ""
            /\ u # "" => last.target = u \o "/" \o EnsureDevDropPrefix(n) \o ":latest"
            /\ (u = "alice" /\ n = "devdrop-go") => last.target = "alice/devdrop-go:latest"

\* C12 witness: the reference of alice for a name given without the prefix
C12_Witness ==
    /\ last.op = "GetEnvironmentImageName"
    /\ last.args = <<"go">>
    /\ Registry.username = "alice"
    /\ last.target = "alice/devdrop-go:latest"

\* C13: run asks the engine for the image reference of the environment; when
\* the engine has it the container is created from it; when not and the
\* environment has a base_image, from the base_image, without a pull; when
\* not and there is no base_image, run pulls the reference and creates the
\* container from it, and fails without creating one when the pull fails.
C13_RunImage ==
    [][(last'.op = "run" /\ Len(last'.calls) >= 2) =>
        LET cfg     == last'.loaded
            k       == last'.target
            calls   == last'.calls
            ref     == cfg.username \o "/" \o k \o ":latest"
            base    == IF k \in DOMAIN cfg.environments
                       THEN cfg.environments[k].base_image ELSE ""
            has     == calls[2] = Asked("ImageExists", ref, TRUE)
            lacks   == calls[2] = Asked("ImageExists", ref, FALSE)
            pulls   == {i \in DOMAIN calls : HasPrefix(calls[i], "PullImage(")}
            creates == {i \in DOMAIN calls : HasPrefix(calls[i], "CreateWorkspaceContainer(")}
            from(i) == \A j \in creates : calls[j] = Call("CreateWorkspaceContainer", i)
        IN  /\ has \/ lacks
            /\ has => pulls = {} /\ from(ref)
            /\ (lacks /\ base # "") => pulls = {} /\ from(base)
            /\ (lacks /\ base = "") =>
                  /\ pulls = {3}
                  /\ calls[3] = Call("PullImage", ref)
                  /\ from(ref)
                  /\ \A j \in creates : j > 3
            /\ last'.result = "failed to pull environment image" =>
                  /\ creates = {}
                  /\ ~Succeeded(last')
                  /\ configFile' = configFile
            /\ Succeeded(last') => Cardinality(creates) = 1]_vars

\* C13 witness: the engine did not have the image of devdrop-go and the
\* session ran in a container created from the base image of the environment
C13_Witness ==
    /\ last.op = "run" /\ last.result = "ok"
    /\ last.target = "devdrop-go"
    /\ last.calls[2] = "ImageExists(alice/devdrop-go:latest): false"
    /\ last.calls[3] = "CreateWorkspaceContainer(golang:latest)"
    /\ Registry.environments["devdrop-go"].last_container # ""

\* C14: after a successful pull of n by a logged-in user the persisted
\* environments hold the key EnsureDevDropPrefix(n) with image
\* "<username>/<key>:latest" and last_updated the time of the pull; a record
\* that was there keeps its created, base_image, description and
\* last_container; a pull that fails leaves the persisted registry as it was.
C14_PullRecords ==
    [][last'.op = "pull" =>
        LET pre  == Persisted(configFile)
            post == Persisted(configFile')
            k    == last'.target
        IN  IF Succeeded(last')
            THEN /\ pre.username # ""
                 /\ Len(last'.args) = 1 => k = EnsureDevDropPrefix(last'.args[1])
                 /\ k \in DOMAIN post.environments
                 /\ post.environments[k].image = pre.username \o "/" \o k \o ":latest"
                 /\ post.environments[k].last_updated = now'
                 /\ now' > now
                 /\ k \in DOMAIN pre.environments =>
                       /\ post.environments[k].created = pre.environments[k].created
                       /\ post.environments[k].base_image = pre.environments[k].base_image
                       /\ post.environments[k].description = pre.environments[k].description
                       /\ post.environments[k].last_container
                            = pre.environments[k].last_container
            ELSE configFile' = configFile]_vars

C16_FailuresAreErrors ==
    [][(/\ last'.op \in {"login", "init", "run", "commit", "pull", "switch", "ls", "status"}
        /\ Succeeded(last'))
       => /\ last'.result \in {"ok", "ok (warning: failed to remove container)"}
          /\ last'.op \in {"init", "run", "commit", "pull"} =>
                /\ last'.write = "whole"
                /\ last'.op # "init" => configFile' # configFile]_vars

\* C17: a commit whose CommitContainer step succeeded and whose PushImage step
\* failed returns an error, leaves the file as it was (so the environment
\* keeps its last_container, image and last_updated) and has not called
\* RemoveContainer; and a commit that loads a registry in which a logged-in
\* user's environment has a last_container, as a later commit of the same
\* environment does, is not refused, and the CommitContainer and PushImage
\* calls it makes are on that container and the image reference of the
\* environment.
C17_PushFailure ==
    [][/\ (last'.op = "commit" /\ last'.result = "failed to push image") =>
            LET cfg == last'.loaded
                k   == last'.target
            IN  /\ ~Succeeded(last')
                /\ configFile' = configFile
                /\ k \in DOMAIN cfg.environments
                /\ cfg.environments[k].last_container # ""
                /\ Len(last'.calls) = 3
                /\ last'.calls[2]
                     = Call("CommitContainer", cfg.environments[k].last_container)
                /\ last'.calls[3] = Call("PushImage", GetEnvironmentImageName(cfg, k))
                /\ \A i \in DOMAIN last'.calls :
                      ~HasPrefix(last'.calls[i], "RemoveContainer(")
       /\ (/\ last'.op = "commit"
           /\ last'.result # ErrLoad
           /\ Len(last'.args) = 1
           /\ last'.loaded.username # "" /\ last'.loaded.auth_token # ""
           /\ EnsureDevDropPrefix(last'.args[1]) \in DOMAIN last'.loaded.environments
           /\ last'.loaded.environments[EnsureDevDropPrefix(last'.args[1])].last_container
                # "") =>
            LET cfg == last'.loaded
                k   == EnsureDevDropPrefix(last'.args[1])
            IN  /\ last'.target = k
                /\ last'.result \notin {ErrNotLoggedIn, ErrNoToken, ErrNoEnvironments,
                                         ErrNoCurrent, ErrEnvNotFound, ErrNoContainer}
                /\ Len(last'.calls) >= 2 =>
                      last'.calls[2]
                        = Call("CommitContainer", cfg.environments[k].last_container)
                /\ Len(last'.calls) >= 3 =>
                      last'.calls[3] = Call("PushImage", GetEnvironmentImageName(cfg, k))
                /\ Succeeded(last') => Len(last'.calls) = 4]_vars

\* C17 witness: the container of devdrop-go was committed, the push failed
\* and the environment still has the container and no image
C17_Witness ==
    /\ last.op = "commit" /\ last.result = "failed to push image"
    /\ last.target = "devdrop-go"
    /\ last.calls = <<"NewClient", "CommitContainer(4f1c2a9be07d33)",
                      "PushImage(alice/devdrop-go:latest)">>
    /\ Registry.environments["devdrop-go"].last_container = "4f1c2a9be07d33"
    /\ Registry.environments["devdrop-go"].image = ""

\* the registry and every environment of the mapping write every one of their
\* fields, none of them empty
FullyPopulated(doc) ==
    LET written(ps, k) == Field(ps, k) # <<>> /\ Field(ps, k)[1].text # ""
        envs == Field(doc.pairs, "environments")
    IN  /\ doc.kind = "mapping"
        /\ \A k \in {"username", "base_image", "auth_token", "current_environment"} :
              written(doc.pairs, k)
        /\ envs # <<>>
        /\ envs[1].kind = "mapping"
        /\ envs[1].pairs # <<>>
        /\ \A i \in DOMAIN envs[1].pairs :
              /\ envs[1].pairs[i][2].kind = "mapping"
              /\ \A k \in {"image", "base_image", "created", "last_updated",
                           "description", "last_container"} :
                    written(envs[1].pairs[i][2].pairs, k)

\* C18: when the file is one that Save wrote, with every field of the
\* registry and of each environment populated, Load followed by Save of the
\* Config as loaded writes the same file: the same keys with the same values
\* in the same order.
C18_RoundTrip ==
    [][(/\ last'.op = "Load, Save" /\ last'.result = "ok"
        /\ configFile # <<>>
        /\ configFile[1] \in SavedDocuments
        /\ FullyPopulated(configFile[1]))
       => configFile' = configFile]_vars

\* C18 witness: a file with two fully populated environments and a registry
\* last_container was loaded and saved
C18_Witness ==
    /\ last.op = "Load, Save" /\ last.result = "ok"
    /\ configFile # <<>>
    /\ configFile[1] \in SavedDocuments
    /\ FullyPopulated(configFile[1])
    /\ Field(configFile[1].pairs, "last_container") # <<>>
    /\ Len(Field(configFile[1].pairs, "environments")[1].pairs) = 2

C20_ImageKept ==
    [][LET pre  == Persisted(configFile).environments
           post == Persisted(configFile').environments
       IN  \A k \in DOMAIN pre :
             pre[k].image # "" =>
                /\ k \in DOMAIN post
                /\ post[k].image # ""
                /\ last'.op \in {"run", "init"} => post[k].image = pre[k].image]_vars

\* the current_environment of the registry is empty or a key of its
\* environments
CurrentIsKey(c) ==
    c.current_environment = "" \/ c.current_environment \in DOMAIN c.environments

C22_RemoveFailure ==
    [][(/\ last'.op = "commit"
        /\ Len(last'.calls) = 4
        /\ HasPrefix(last'.calls[4], "RemoveContainer(")
        /\ HasSuffix(last'.calls[4], ": error"))
       => LET pre  == last'.loaded
              post == Persisted(configFile')
              k    == last'.target
          IN  /\ last'.result = "ok (warning: failed to remove container)"
              /\ Succeeded(last')
              /\ k \in DOMAIN pre.environments
              /\ last'.calls
                   = <<"NewClient",
                       Call("CommitContainer", pre.environments[k].last_container),
                       Call("PushImage", pre.username \o "/" \o k \o ":latest"),
                       Refused("RemoveContainer", pre.environments[k].last_container)>>
              /\ k \in DOMAIN post.environments
              /\ post.environments[k].image = pre.username \o "/" \o k \o ":latest"
              /\ post.environments[k].last_container = ""]_vars

\* C22 witness: devdrop-go was committed and pushed and its container could
\* not be removed
C22_Witness ==
    /\ last.op = "commit"
    /\ last.calls = <<"NewClient", "CommitContainer(4f1c2a9be07d33)",
                      "PushImage(alice/devdrop-go:latest)",
                      "RemoveContainer(4f1c2a9be07d33): error">>
    /\ last.result = "ok (warning: failed to remove container)"
    /\ last.target = "devdrop-go"
    /\ Registry.environments["devdrop-go"].image = "alice/devdrop-go:latest"
    /\ Registry.environments["devdrop-go"].last_container = ""

UpperLetters == "ABCDEFGHIJKLMNOPQRSTUVWXYZ"

LowerLetters == "abcdefghijklmnopqrstuvwxyz"

\* the text with every upper-case letter replaced by its lower-case one
RECURSIVE LowerFrom(_, _)
LowerFrom(s, i) ==
    IF i > Len(s) THEN ""
    ELSE LET ch == SubSeq(s, i, i)
             at == FirstIndexFrom(UpperLetters, ch, 1)
         IN  (IF at = 0 THEN ch ELSE SubSeq(LowerLetters, at, at))
               \o LowerFrom(s, i + 1)

\* substr occurs somewhere in s, letters compared without regard to case
ContainsFold(s, substr) ==
    \E i \in 1..(Len(s) - Len(substr) + 1) :
        LowerFrom(SubSeq(s, i, i + Len(substr) - 1), 1) = LowerFrom(substr, 1)

\* C23: isImageNotFoundError answers true exactly for a non-nil error whose
\* text contains "not found", "404", "does not exist" or "pull access
\* denied", letters compared without regard to case.
C23_NotFoundFold ==
    last.op = "isImageNotFoundError"
    => (last.result = "true"
        <=> /\ last.args # <<>>
            /\ \E p \in NotFoundPatterns : ContainsFold(last.args[1], p))

\* results of init and run when the engine connection, the image pull, the
\* container creation or the interactive session failed
EngineFailures ==
    {"failed to connect to Docker", "failed to pull base image",
     "failed to pull environment image", "failed to create container",
     "failed to start interactive container", "failed to start container"}

\* C24: init and run write the registry only after the interactive session
\* ended successfully: when the engine connection, the image pull, the
\* container creation or the session fails, the command returns an error, has
\* made no save, and the persisted registry is what it was; and a step of
\* theirs that writes the file comes after a StartInteractiveContainer call
\* that succeeded.
C24_WriteAfterSession ==
    [][last'.op \in {"init", "run"}
       => /\ last'.result \in EngineFailures
             => /\ Returned(last') /\ ~Succeeded(last')
                /\ last'.write = "none"
                /\ configFile' = configFile
                /\ \A p \in Processes :
                      running'[p] # running[p] => running[p].phase \in {"new", "loaded"}
          /\ (last'.write # "none" \/ configFile' # configFile)
             => /\ last'.calls # <<>>
                /\ last'.calls[Len(last'.calls)] = "StartInteractiveContainer"
                /\ last'.result \notin EngineFailures]_vars

\* C24 witness: a run of devdrop-go, which has a container from an earlier
\* session, ended with a failed session
C24_Witness ==
    /\ last.op = "run"
    /\ last.result = "failed to start container"
    /\ last.target = "devdrop-go"
    /\ "devdrop-go" \in Keys
    /\ Registry.environments["devdrop-go"].last_container # ""

\* C25: a successful commit of environment E changes only E's record, and of
\* it only image, last_updated and last_container: the other environments'
\* records, current_environment, username, auth_token and base_image are
\* after the commit what they were before it.
C25_CommitFrame ==
    [][(last'.op = "commit" /\ Succeeded(last'))
       => LET pre  == last'.loaded
              post == Persisted(configFile')
              E    == last'.target
          IN  /\ DOMAIN post.environments = DOMAIN pre.environments
              /\ E \in DOMAIN pre.environments
              /\ \A k \in DOMAIN pre.environments \ {E} :
                    post.environments[k] = pre.environments[k]
              /\ post.environments[E].base_image = pre.environments[E].base_image
              /\ post.environments[E].created = pre.environments[E].created
              /\ post.environments[E].description = pre.environments[E].description
              /\ post.current_environment = pre.current_environment
              /\ post.username = pre.username
              /\ post.auth_token = pre.auth_token
              /\ post.base_image = pre.base_image]_vars

\* C25 witness: devdrop-go was committed as the current environment while
\* devdrop-py holds a container of its own
C25_Witness ==
    /\ last.op = "commit" /\ Succeeded(last)
    /\ last.target = "devdrop-go"
    /\ Registry.current_environment = "devdrop-go"
    /\ Keys = {"devdrop-py", "devdrop-go"}
    /\ Registry.environments["devdrop-py"].last_container # ""
    /\ Registry.environments["devdrop-go"].image = "alice/devdrop-go:latest"
    /\ Registry.environments["devdrop-go"].last_container = ""
    /\ Registry.environments["devdrop-go"].last_updated = now

\* every environment record of the registry has last_updated >= created
UpdatedAfterCreated(c) ==
    \A k \in DOMAIN c.environments :
        c.environments[k].last_updated >= c.environments[k].created

C30_NoSlicePanic ==
    last.op = "commit" => last.result # "panic: slice bounds out of range"

\* C27: for every registry with at least one environment, whatever the
\* last_updated values of its records, the zero time included,
\* GetCurrentEnvironment returns a key of environments and never the empty
\* string.
C27_CurrentWhenEnvironments ==
    (last.op = "GetCurrentEnvironment" /\ HasEnvironments(Registry))
    => (last.target # "" /\ last.target \in DOMAIN Registry.environments)

\* the persisted credentials are those of a login just made
CredentialsOfLogin(cfg) ==
    \E u \in Usernames, p \in Passwords :
        /\ u # "" /\ p # ""
        /\ cfg.username = u
        /\ cfg.auth_token = createAuthToken(u, p)

SavedSecond ==
    /\ last'.op \in {"login", "init", "run", "commit", "pull", "switch"}
    /\ last'.write = "whole"

\* C29 (as stated): when two invocations overlap in time on the same config
\* file, every environment record and field written by the invocation that
\* saves first is still in the persisted registry after the other one saves.
C29_FirstSaveKept ==
    [][SavedSecond
       => LET loaded == last'.loaded
              wrote  == Persisted(configFile)
              post   == Persisted(configFile')
          IN  /\ \A k \in DOMAIN wrote.environments \ {last'.target} :
                    (\/ k \notin DOMAIN loaded.environments
                     \/ wrote.environments[k] # loaded.environments[k])
                    => /\ k \in DOMAIN post.environments
                       /\ post.environments[k] = wrote.environments[k]
              /\ (/\ wrote.current_environment # loaded.current_environment
                  /\ last'.op \notin {"init", "switch"})
                 => post.current_environment = wrote.current_environment
              /\ (wrote.username # loaded.username /\ last'.op # "login")
                 => post.username = wrote.username
              /\ (wrote.auth_token # loaded.auth_token /\ last'.op # "login")
                 => post.auth_token = wrote.auth_token]_vars

\* C29 (amended): when two invocations overlap in time on the same config
\* file, the one that saves second writes the Config it loaded at its start
\* with its own change: after its save every environment other than its
\* target, and base_image, last_container, username and auth_token (unless it
\* is a login) and current_environment (unless it is an init or a switch),
\* are as it loaded them, whatever the invocation that saved first had
\* written.
C29_LastSaveWins ==
    [][SavedSecond
       => LET loaded == last'.loaded
              post   == Persisted(configFile')
              others == DOMAIN post.environments \ {last'.target}
          IN  /\ others = DOMAIN loaded.environments \ {last'.target}
              /\ \A k \in others : post.environments[k] = loaded.environments[k]
              /\ last'.op # "login" => last'.target \in DOMAIN post.environments
              /\ last'.op # "login" => post.username = loaded.username
              /\ last'.op # "login" => post.auth_token = loaded.auth_token
              /\ post.base_image = loaded.base_image
              /\ post.last_container = loaded.last_container
              /\ last'.op \notin {"init", "switch"}
                 => post.current_environment = loaded.current_environment]_vars

\* C29 witness: a pull of devdrop-go loaded a registry without environments;
\* an init completed, wrote devdrop-go from the golang image and made it the
\* current environment; after the pull saved, the current_environment is
\* empty again and the record is the one the pull wrote
C29_Witness ==
    /\ last.op = "pull" /\ last.write = "whole"
    /\ last.target = "devdrop-go"
    /\ DOMAIN last.loaded.environments = {}
    /\ Persisted(last.found).current_environment = "devdrop-go"
    /\ Persisted(last.found).environments["devdrop-go"].base_image = "golang:latest"
    /\ Keys = {"devdrop-go"}
    /\ Registry.current_environment = ""
    /\ Registry.environments["devdrop-go"].base_image # "golang:latest"
====
